---- MODULE Spec2Model ----
(***************************************************************************)
(* Model of the argument-binding engine of lib/confparse.cc                *)
(* (cp_va_parsev and the functions it calls).                              *)
(*                                                                         *)
(* Strings are sequences of one-character strings; the C code's 0-based    *)
(* indices into a String become 1-based indices here.  The scratch array   *)
(* cp_values is indexed from 0 as in the code.                             *)
(***************************************************************************)
EXTENDS Integers, Sequences, FiniteSets, TLC

\* ------------------------------------------------------------------------
\* Bounds of the model
\* ------------------------------------------------------------------------

\* Largest number of declared values in a declaration that freely mixes
\* entry kinds; longer declarations are runs of IGNORE entries only.
MaxValues == 3

\* Largest number of input arguments handed to one binding call.
MaxArgs == 2

\* A name is registered with result 0 at most MaxRegistered times; its
\* use_count is raised to at most MaxUseCount, and it is unregistered at
\* most as many times.
MaxRegistered == 2

MaxUseCount == 3

\* Longest configuration text handed to cp_argvec and cp_uncomment.
MaxConfLen == 4

\* The most digits of a number's text.
MaxDigits == 10

\* The most fractional bits of a fixed-point number, and the greatest such
\* number.
MaxFracBits == 6

MaxReal == 255

\* The most groups of the text of an IPv6 mask.
MaxMaskGroups == 3

\* The most groups of the text of an IPv6 address.
MaxGroups == 9

\* ------------------------------------------------------------------------
\* Program constants
\* ------------------------------------------------------------------------

CP_VALUES_SIZE == 80

kwSuccess == 0
kwDupKeyword == 0 - 1
kwNoKeyword == 0 - 2
kwUnkKeyword == 0 - 3

\* The null pointer, for const char * and cp_argtype * alike.
NULL == "NULL"

\* The empty String.
EmptyString == << >>

\* ------------------------------------------------------------------------
\* Characters
\* ------------------------------------------------------------------------

Digits == {"0", "1", "2", "3", "4", "5", "6", "7", "8", "9"}

Letters ==
  {"a", "b", "c", "d", "e", "f", "g", "h", "i", "j", "k", "l", "m",
   "n", "o", "p", "q", "r", "s", "t", "u", "v", "w", "x", "y", "z",
   "A", "B", "C", "D", "E", "F", "G", "H", "I", "J", "K", "L", "M",
   "N", "O", "P", "Q", "R", "S", "T", "U", "V", "W", "X", "Y", "Z"}

isalnum(c) == c \in Digits \cup Letters

\* "\v" has no TLA+ escape; no input of the model holds it.
isspace(c) == c \in {" ", "\f", "\n", "\r", "\t"}

\* ------------------------------------------------------------------------
\* cp_keyword
\* ------------------------------------------------------------------------

\* The word-accumulating loop of cp_keyword: the index at which it stops
\* (a whitespace character or the end of the string), or 0 when it meets
\* a character that is not allowed in a keyword (return false).
RECURSIVE KeywordScan(_, _)
KeywordScan(s, i) ==
  IF i > Len(s) THEN i
  ELSE IF isspace(s[i]) THEN i
  ELSE IF s[i] \in {"_", ".", ":"} \/ isalnum(s[i]) THEN KeywordScan(s, i + 1)
  ELSE 0

\* The loop that skips the whitespace between the keyword and the rest.
RECURSIVE SkipSpace(_, _)
SkipSpace(s, i) ==
  IF i <= Len(s) /\ isspace(s[i]) THEN SkipSpace(s, i + 1) ELSE i

\* cp_keyword(str, &keyword, &rest) with a non-null rest pointer.
cp_keyword(str) ==
  LET i == KeywordScan(str, 1)
  IN IF i = 0 \/ i = 1
       THEN [ok |-> FALSE, keyword |-> EmptyString, rest |-> EmptyString]
       ELSE [ok |-> TRUE,
             keyword |-> SubSeq(str, 1, i - 1),
             rest |-> SubSeq(str, SkipSpace(str, i), Len(str))]

\* ------------------------------------------------------------------------
\* cp_bool
\* ------------------------------------------------------------------------

cp_bool(str) ==
  IF str = <<"0">> THEN [ok |-> TRUE, value |-> FALSE]
  ELSE IF str = <<"1">> THEN [ok |-> TRUE, value |-> TRUE]
  ELSE IF str = <<"f", "a", "l", "s", "e">> THEN [ok |-> TRUE, value |-> FALSE]
  ELSE IF str = <<"t", "r", "u", "e">> THEN [ok |-> TRUE, value |-> TRUE]
  ELSE IF str = <<"n", "o">> THEN [ok |-> TRUE, value |-> FALSE]
  ELSE IF str = <<"y", "e", "s">> THEN [ok |-> TRUE, value |-> TRUE]
  ELSE [ok |-> FALSE, value |-> FALSE]

\* ------------------------------------------------------------------------
\* Comments, quotes and argument vectors
\* ------------------------------------------------------------------------

\* s[i] of the code: positions count from 0.
At(s, i) == s[i + 1]

\* String::substring(pos, len) for 0 <= pos and 0 <= len.
substring(str, pos, n) ==
  IF pos >= Len(str) \/ n <= 0 THEN << >>
  ELSE SubSeq(str, pos + 1, IF pos + n > Len(str) THEN Len(str) ELSE pos + n)

\* The test that a comment starts at position i.
CommentAt(s, i, len) ==
  /\ At(s, i) = "/"
  /\ i < len - 1
  /\ At(s, i + 1) = "/" \/ At(s, i + 1) = "*"

\* The loop of skip_comment over a // comment.
RECURSIVE LineCommentEnd(_, _, _)
LineCommentEnd(s, pos, len) ==
  IF pos < len - 1 /\ At(s, pos) # "\n" /\ At(s, pos) # "\r"
    THEN LineCommentEnd(s, pos + 1, len)
    ELSE pos

\* The loop of skip_comment over a /* comment.
RECURSIVE BlockCommentEnd(_, _, _)
BlockCommentEnd(s, pos, len) ==
  IF pos < len - 2 /\ (At(s, pos) # "*" \/ At(s, pos + 1) # "/")
    THEN BlockCommentEnd(s, pos + 1, len)
    ELSE pos

\* skip_comment: the position after the comment that starts at pos; it can
\* lie beyond len.
skip_comment(s, pos, len) ==
  IF At(s, pos + 1) = "/"
    THEN LET p == LineCommentEnd(s, pos + 2, len)
         IN IF p < len - 1 /\ At(s, p) = "\r" /\ At(s, p + 1) = "\n"
              THEN p + 2 ELSE p + 1
    ELSE BlockCommentEnd(s, pos + 2, len) + 2

\* The loop of skip_backslash_angle from position pos on.
RECURSIVE AngleScan(_, _, _)
AngleScan(s, pos, len) ==
  IF pos >= len THEN len
  ELSE IF At(s, pos) = ">" THEN pos + 1
  ELSE IF CommentAt(s, pos, len) THEN AngleScan(s, skip_comment(s, pos, len), len)
  ELSE AngleScan(s, pos + 1, len)

skip_backslash_angle(s, pos, len) == AngleScan(s, pos + 2, len)

\* The loop of skip_double_quote from position pos on.
RECURSIVE DoubleQuoteScan(_, _, _)
DoubleQuoteScan(s, pos, len) ==
  IF pos >= len THEN len
  ELSE IF pos < len - 1 /\ At(s, pos) = "\\"
    THEN IF At(s, pos + 1) = "<"
           THEN DoubleQuoteScan(s, skip_backslash_angle(s, pos, len), len)
           ELSE DoubleQuoteScan(s, pos + 2, len)
  ELSE IF At(s, pos) = "\"" THEN pos + 1
  ELSE DoubleQuoteScan(s, pos + 1, len)

skip_double_quote(s, pos, len) == DoubleQuoteScan(s, pos + 1, len)

\* The loop of skip_single_quote from position pos on.
RECURSIVE SingleQuoteScan(_, _, _)
SingleQuoteScan(s, pos, len) ==
  IF pos >= len THEN len
  ELSE IF At(s, pos) = "'" THEN pos + 1
  ELSE SingleQuoteScan(s, pos + 1, len)

skip_single_quote(s, pos, len) == SingleQuoteScan(s, pos + 1, len)

\* partial_uncomment, "skip initial spaces": the position it stops at.
RECURSIVE SkipInitialSpaces(_, _, _)
SkipInitialSpaces(s, i, len) ==
  IF i >= len THEN i
  ELSE IF CommentAt(s, i, len) THEN SkipInitialSpaces(s, skip_comment(s, i, len), len)
  ELSE IF ~isspace(At(s, i)) THEN i
  ELSE SkipInitialSpaces(s, i + 1, len)

\* The position after the quoted text, \<...> block or single character
\* that starts at i.
SkipText(s, i, len) ==
  IF At(s, i) = "'" THEN skip_single_quote(s, i, len)
  ELSE IF At(s, i) = "\"" THEN skip_double_quote(s, i, len)
  ELSE IF At(s, i) = "\\" /\ i < len - 1 /\ At(s, i + 1) = "<"
    THEN skip_backslash_angle(s, i, len)
  ELSE i + 1

\* partial_uncomment, "accumulate text, skipping comments": the while loop
\* and the return.  comma says that comma_pos is not null.
RECURSIVE Accumulate(_, _, _, _, _, _, _, _)
Accumulate(s, len, comma, i, sa, left, right, closed) ==
  IF i < len /\ isspace(At(s, i))
    THEN Accumulate(s, len, comma, i + 1, sa, left, right, closed)
  ELSE IF i < len /\ CommentAt(s, i, len)
    THEN Accumulate(s, len, comma, skip_comment(s, i, len), sa, left, right, TRUE)
  ELSE IF i < len /\ ~(At(s, i) = "," /\ comma)
    THEN Accumulate(s, len, comma, SkipText(s, i, len),
                    IF closed THEN sa \o substring(s, left, right - left) \o <<" ">> ELSE sa,
                    IF closed THEN i ELSE left,
                    SkipText(s, i, len), FALSE)
  ELSE [comma_pos |-> i,
        string |-> IF sa = << >>
                     THEN substring(s, left, right - left)
                     ELSE sa \o substring(s, left, right - left)]

\* partial_uncomment(str, i, comma_pos): the string returned and *comma_pos.
partial_uncomment(str, i, comma) ==
  LET start == SkipInitialSpaces(str, i, Len(str))
  IN Accumulate(str, Len(str), comma, start, << >>, start, start, FALSE)

\* Variant: the text is cut at a comma, as for cp_argvec.
cp_uncomment_to_comma(str) == partial_uncomment(str, 0, TRUE).string

cp_uncomment(str) == partial_uncomment(str, 0, FALSE).string

\* The while (i <= len) loop of cp_argvec.
RECURSIVE ArgvecLoop(_, _, _, _, _)
ArgvecLoop(conf, len, i, first_arg, args_out) ==
  IF i > len THEN args_out
  ELSE LET r == partial_uncomment(conf, i, TRUE)
       IN ArgvecLoop(conf, len, r.comma_pos + 1, FALSE,
                     IF r.string # << >> \/ r.comma_pos < len \/ ~first_arg
                       THEN Append(args_out, r.string)
                       ELSE args_out)

\* Variant: the loop stops before position len, so that nothing follows a
\* final comma.
cp_argvec_no_trailing(conf) ==
  IF Len(conf) = 0 THEN << >> ELSE ArgvecLoop(conf, Len(conf) - 1, 0, TRUE, << >>)

\* cp_argvec(conf, args), args empty at entry: the vector afterwards.
cp_argvec(conf) ==
  IF Len(conf) = 0 THEN << >> ELSE ArgvecLoop(conf, Len(conf), 0, TRUE, << >>)

\* The bytes of the characters the texts are written with.
ByteOf ==
  [c \in {"\t", "\n", "\r", " ", "\"", "$", "'", "*", ",", "/",
          "0", "1", "2", "3", "4", "5", "6", "7", "<", ">",
          "\\", "a", "n", "r", "t", "x"} |->
     CASE c = "\t" -> 9 [] c = "\n" -> 10 [] c = "\r" -> 13 [] c = " " -> 32
       [] c = "\"" -> 34 [] c = "$" -> 36 [] c = "'" -> 39 [] c = "*" -> 42
       [] c = "," -> 44 [] c = "/" -> 47
       [] c = "0" -> 48 [] c = "1" -> 49 [] c = "2" -> 50 [] c = "3" -> 51
       [] c = "4" -> 52 [] c = "5" -> 53 [] c = "6" -> 54 [] c = "7" -> 55
       [] c = "<" -> 60 [] c = ">" -> 62
       [] c = "\\" -> 92 [] c = "a" -> 97 [] c = "n" -> 110 [] c = "r" -> 114
       [] c = "t" -> 116 [] c = "x" -> 120]

\* Variant: no test of the byte's range.
cp_is_word_any_byte(str) ==
  /\ \A i \in 1 .. Len(str) :
       ~(str[i] = "\"" \/ str[i] = "'" \/ str[i] = ",")
  /\ Len(str) > 0

cp_is_word(str) ==
  /\ \A i \in 1 .. Len(str) :
       ~(\/ str[i] = "\"" \/ str[i] = "'" \/ str[i] = ","
         \/ ByteOf[str[i]] <= 32 \/ ByteOf[str[i]] >= 127)
  /\ Len(str) > 0

\* The value of a hexadecimal digit, and the digits.
xvalue ==
  [c \in {"0", "1", "2", "3", "4", "5", "6", "7", "8", "9",
          "a", "b", "c", "d", "e", "f", "A", "B", "C", "D", "E", "F"} |->
     CASE c = "0" -> 0 [] c = "1" -> 1 [] c = "2" -> 2 [] c = "3" -> 3
       [] c = "4" -> 4 [] c = "5" -> 5 [] c = "6" -> 6 [] c = "7" -> 7
       [] c = "8" -> 8 [] c = "9" -> 9
       [] c \in {"a", "A"} -> 10 [] c \in {"b", "B"} -> 11
       [] c \in {"c", "C"} -> 12 [] c \in {"d", "D"} -> 13
       [] c \in {"e", "E"} -> 14 [] c \in {"f", "F"} -> 15]

OctalDigits == {"0", "1", "2", "3", "4", "5", "6", "7"}

\* (char)c: the character whose byte is c modulo 256.  The bytes of the
\* characters the texts are written with give those characters; any other
\* byte b is written "\x" followed by b in decimal.
ToChar(c) ==
  LET b == c % 256
  IN IF \E ch \in DOMAIN ByteOf : ByteOf[ch] = b
       THEN CHOOSE ch \in DOMAIN ByteOf : ByteOf[ch] = b
       ELSE "\\x" \o ToString(b)

\* process_backslash, case of an octal digit: the for loop.
RECURSIVE OctalScan(_, _, _, _, _)
OctalScan(s, len, i, c, d) ==
  IF i < len /\ At(s, i) \in OctalDigits /\ d < 3
    THEN OctalScan(s, len, i + 1, c * 8 + xvalue[At(s, i)], d + 1)
    ELSE [c |-> c, i |-> i]

\* process_backslash, case 'x': the for loop.
RECURSIVE HexScan(_, _, _, _)
HexScan(s, len, i, c) ==
  IF i < len /\ At(s, i) \in DOMAIN xvalue
    THEN HexScan(s, len, i + 1, c * 16 + xvalue[At(s, i)])
    ELSE [c |-> c, i |-> i]

\* process_backslash, case '<': the for loop and the return after it.
RECURSIVE AngleHex(_, _, _, _, _, _)
AngleHex(s, len, i, c, d, sa) ==
  IF i >= len THEN [next |-> len, sa |-> sa]
  ELSE IF At(s, i) = ">" THEN [next |-> i + 1, sa |-> sa]
  ELSE IF At(s, i) \in DOMAIN xvalue
    THEN IF d + 1 = 2
           THEN AngleHex(s, len, i + 1, 0, 0,
                         Append(sa, ToChar(c * 16 + xvalue[At(s, i)])))
           ELSE AngleHex(s, len, i + 1, c * 16 + xvalue[At(s, i)], d + 1, sa)
  ELSE IF CommentAt(s, i, len)
    THEN AngleHex(s, len, skip_comment(s, i, len), c, d, sa)
  ELSE AngleHex(s, len, i + 1, c, d, sa)

\* process_backslash(s, i, len, sa), called with i < len - 1 and s[i] the
\* backslash: the position returned and the accumulator afterwards.
process_backslash(s, i, len, sa) ==
  LET c == At(s, i + 1)
      one(ch) == [next |-> i + 2, sa |-> Append(sa, ch)]
  IN CASE c = "\r" ->
            [next |-> IF i < len - 2 /\ At(s, i + 2) = "\n" THEN i + 3 ELSE i + 2,
             sa |-> sa]
       [] c = "\n" -> [next |-> i + 2, sa |-> sa]
       [] c = "a" -> one(ToChar(7))
       [] c = "b" -> one(ToChar(8))
       [] c = "f" -> one(ToChar(12))
       [] c = "n" -> one(ToChar(10))
       [] c = "r" -> one(ToChar(13))
       [] c = "t" -> one(ToChar(9))
       [] c = "v" -> one(ToChar(11))
       [] c \in OctalDigits ->
            LET r == OctalScan(s, len, i + 1, 0, 0)
            IN [next |-> r.i, sa |-> Append(sa, ToChar(r.c))]
       [] c = "x" ->
            LET r == HexScan(s, len, i + 2, 0)
            IN [next |-> r.i, sa |-> Append(sa, ToChar(r.c))]
       [] c = "<" -> AngleHex(s, len, i + 2, 0, 0, sa)
       [] OTHER -> one(c)

\* The for loop of cp_unquote and its return; quote_state is "0" outside
\* quotes and the quote character inside them.
RECURSIVE UnquoteLoop(_, _, _, _, _, _)
UnquoteLoop(str, len, i, start, quote_state, sa) ==
  IF i >= len
    THEN IF start = 0 THEN str ELSE sa \o substring(str, start, i - start)
  ELSE IF At(str, i) \in {"\"", "'"}
    THEN IF quote_state = "0"
           THEN UnquoteLoop(str, len, i + 1, i + 1, At(str, i),
                            IF start < i THEN sa \o substring(str, start, i - start) ELSE sa)
         ELSE IF quote_state = At(str, i)
           THEN UnquoteLoop(str, len, i + 1, i + 1, "0",
                            IF start < i THEN sa \o substring(str, start, i - start) ELSE sa)
         ELSE UnquoteLoop(str, len, i + 1, start, quote_state, sa)
  ELSE IF /\ At(str, i) = "\\"
          /\ i < len - 1
          /\ quote_state = "\"" \/ (quote_state = "0" /\ At(str, i + 1) = "<")
    THEN LET r == process_backslash(str, i, len, sa \o substring(str, start, i - start))
         IN UnquoteLoop(str, len, r.next, r.next, quote_state, r.sa)
  ELSE UnquoteLoop(str, len, i + 1, start, quote_state, sa)

\* Variant: the comments are not removed first.
cp_unquote_keep_comments(in_str) ==
  UnquoteLoop(in_str, Len(in_str), 0, 0, "0", << >>)

cp_unquote(in_str) ==
  LET str == partial_uncomment(in_str, 0, FALSE).string
  IN UnquoteLoop(str, Len(str), 0, 0, "0", << >>)

\* The byte of a character: (unsigned char)s[i].
Byte(c) ==
  IF c \in DOMAIN ByteOf THEN ByteOf[c] ELSE CHOOSE b \in 0 .. 255 : ToChar(b) = c

\* (char)('0' + n) for n in 0 .. 7.
OctalChar(n) == ToChar(ByteOf["0"] + n)

\* The for loop of cp_quote and the statements after it.
RECURSIVE QuoteLoop(_, _, _, _, _, _)
QuoteLoop(str, len, i, start, allow_newlines, sa) ==
  LET c == At(str, i)
      u == Byte(c)
      before == sa \o substring(str, start, i - start)
  IN IF i >= len THEN (sa \o substring(str, start, i - start)) \o <<"\"">>
     ELSE IF c \in {"\\", "\"", "$"}
       THEN QuoteLoop(str, len, i + 1, i + 1, allow_newlines, before \o <<"\\", c>>)
     ELSE IF c = "\t"
       THEN QuoteLoop(str, len, i + 1, i + 1, allow_newlines, before \o <<"\\", "t">>)
     ELSE IF c = "\r"
       THEN QuoteLoop(str, len, i + 1, i + 1, allow_newlines, before \o <<"\\", "r">>)
     ELSE IF c = "\n"
       THEN IF ~allow_newlines
              THEN QuoteLoop(str, len, i + 1, i + 1, allow_newlines, before \o <<"\\", "n">>)
              ELSE QuoteLoop(str, len, i + 1, start, allow_newlines, sa)
     ELSE IF u < 32 \/ u >= 127
       THEN QuoteLoop(str, len, i + 1, i + 1, allow_newlines,
                      before \o <<"\\", OctalChar(u \div 64),
                                  OctalChar((u \div 8) % 8), OctalChar(u % 8)>>)
     ELSE QuoteLoop(str, len, i + 1, start, allow_newlines, sa)

\* Variant: newlines are always left as they are.
cp_quote_newlines(str, allow_newlines) ==
  IF Len(str) = 0 THEN <<"\"", "\"">>
  ELSE QuoteLoop(str, Len(str), 0, 0, TRUE, <<"\"">>)

cp_quote(str, allow_newlines) ==
  IF Len(str) = 0 THEN <<"\"", "\"">>
  ELSE QuoteLoop(str, Len(str), 0, 0, allow_newlines, <<"\"">>)

\* ------------------------------------------------------------------------
\* Numbers
\* ------------------------------------------------------------------------

\* An unsigned, and the bits of an int, are 32 bits wide: two halves of 16
\* bits, value hi * 2^16 + lo.
Half == 65536

U32(hi, lo) == [hi |-> hi, lo |-> lo]

\* a < b for unsigned a and b.
Less(a, b) == a.hi < b.hi \/ (a.hi = b.hi /\ a.lo < b.lo)

\* val * base + digit in unsigned arithmetic: the result modulo 2^32.
MulAdd(val, base, digit) ==
  LET lo == val.lo * base + digit
      hi == val.hi * base + lo \div Half
  IN U32(hi % Half, lo % Half)

\* -value in unsigned arithmetic.
Negate(value) ==
  IF value.lo = 0
    THEN U32((Half - value.hi) % Half, 0)
    ELSE U32(Half - 1 - value.hi, Half - value.lo)

\* The int whose bits are v.
SignedValue(v) ==
  IF v.hi >= Half \div 2 THEN (v.hi - Half) * Half + v.lo ELSE v.hi * Half + v.lo

CPE_OK == "CPE_OK"

CPE_OVERFLOW == "CPE_OVERFLOW"

\* The digit a character of the texts stands for, or -1: '0' .. '9' are
\* 0 .. 9, and the letters, in either case, are 10 .. 35.
DigitOf(c) ==
  CASE c = "0" -> 0 [] c = "1" -> 1 [] c = "2" -> 2 [] c = "3" -> 3
    [] c = "4" -> 4 [] c = "5" -> 5 [] c = "6" -> 6 [] c = "7" -> 7
    [] c = "8" -> 8 [] c = "9" -> 9
    [] c \in {"a", "A"} -> 10 [] c \in {"b", "B"} -> 11
    [] c \in {"c", "C"} -> 12 [] c \in {"d", "D"} -> 13
    [] c \in {"e", "E"} -> 14 [] c \in {"f", "F"} -> 15
    [] c \in {"x", "X"} -> 33
    [] OTHER -> -1

\* The overflow test of the while loop: new_val < val.
Wrapped(val, base, digit) == Less(MulAdd(val, base, digit), val)

\* The while loop of cp_unsigned.
RECURSIVE UnsignedLoop(_, _, _, _, _, _)
UnsignedLoop(s, len, i, base, val, errno) ==
  IF i < len /\ DigitOf(At(s, i)) >= 0 /\ DigitOf(At(s, i)) < base
    THEN UnsignedLoop(s, len, i + 1, base, MulAdd(val, base, DigitOf(At(s, i))),
                      IF Wrapped(val, base, DigitOf(At(s, i)))
                        THEN CPE_OVERFLOW ELSE errno)
    ELSE [i |-> i, val |-> val, cp_errno |-> errno]

\* cp_unsigned(str, base, return_value) with cp_errno as it is at the call:
\* the result, *return_value and cp_errno afterwards.  Where the text ends
\* at i, the character the code reads there decides nothing: the call
\* returns false for want of digits.
cp_unsigned(str, base, return_value, cp_errno) ==
  LET len == Len(str)
      i0 == IF 0 < len /\ At(str, 0) = "+" THEN 1 ELSE 0
      hex == /\ base <= 0 \/ base = 16
             /\ i0 < len - 1
             /\ At(str, i0) = "0"
             /\ At(str, i0 + 1) \in {"x", "X"}
      i1 == IF hex THEN i0 + 2 ELSE i0
      base1 == IF hex THEN 16
               ELSE IF base <= 0 /\ i0 < len /\ At(str, i0) = "0" THEN 8
               ELSE IF base <= 0 THEN 10
               ELSE base
      r == UnsignedLoop(str, len, i1, base1, U32(0, 0), CPE_OK)
  IN IF i1 = len
       THEN [ok |-> FALSE, return_value |-> return_value, cp_errno |-> cp_errno]
     ELSE IF r.i # len
       THEN [ok |-> FALSE, return_value |-> return_value, cp_errno |-> r.cp_errno]
     ELSE [ok |-> TRUE,
           return_value |-> IF r.cp_errno # CPE_OK
                              THEN U32(Half - 1, Half - 1) ELSE r.val,
           cp_errno |-> r.cp_errno]

\* cp_integer(str, base, return_value): the result, the bits of
\* *return_value and cp_errno afterwards.
cp_integer(str, base, return_value, cp_errno) ==
  IF Len(str) = 0
    THEN [ok |-> FALSE, return_value |-> return_value, cp_errno |-> cp_errno]
  ELSE
    LET negative == At(str, 0) = "-"
        u == IF negative
               THEN cp_unsigned(substring(str, 1, Len(str) - 1), base, U32(0, 0), cp_errno)
               ELSE cp_unsigned(str, base, U32(0, 0), cp_errno)
        value == u.return_value
        top == U32(Half \div 2, 0)
    IN IF ~u.ok
         THEN [ok |-> FALSE, return_value |-> return_value, cp_errno |-> u.cp_errno]
       ELSE IF u.cp_errno = CPE_OVERFLOW
         THEN [ok |-> TRUE, return_value |-> U32(Half \div 2 - 1, Half - 1),
               cp_errno |-> CPE_OVERFLOW]
       ELSE IF ~negative /\ ~Less(value, top)
         THEN [ok |-> TRUE, return_value |-> U32(Half \div 2 - 1, Half - 1),
               cp_errno |-> CPE_OVERFLOW]
       ELSE IF negative /\ Less(top, value)
         THEN [ok |-> TRUE, return_value |-> top, cp_errno |-> CPE_OVERFLOW]
       ELSE IF negative
         THEN [ok |-> TRUE, return_value |-> Negate(value), cp_errno |-> u.cp_errno]
       ELSE [ok |-> TRUE, return_value |-> value, cp_errno |-> u.cp_errno]

\* An unsigned long long is 64 bits wide: four limbs of 16 bits, the lowest
\* first.
Limb(w, i) == IF i \in 1 .. 4 THEN w[i] ELSE 0

ULL(v) == <<v.lo, v.hi, 0, 0>>

\* The one element of a set of one element: the operators below compute
\* their result from operands evaluated once.
The(S) == CHOOSE r \in S : TRUE

\* w >> n.
Shr(w, n) ==
  LET limbs == n \div 16
      bits == n % 16
      limb(v, i) == (Limb(v, i + limbs) \div (2 ^ bits))
                      + (Limb(v, i + limbs + 1) % (2 ^ bits)) * (2 ^ (16 - bits))
  IN The({<<limb(v, 1), limb(v, 2), limb(v, 3), limb(v, 4)>> : v \in {w}})

\* w << n for n < 16.
Shl(w, n) ==
  LET limb(v, i) == ((v[i] * (2 ^ n)) % Half) + (Limb(v, i - 1) \div (2 ^ (16 - n)))
  IN The({<<limb(v, 1), limb(v, 2), limb(v, 3), limb(v, 4)>> : v \in {w}})

\* a + b + carry modulo 2^64.
AddCarry(a, b, carry) ==
  The({LET s1 == x[1] + y[1] + carry
           s2 == x[2] + y[2] + s1 \div Half
           s3 == x[3] + y[3] + s2 \div Half
           s4 == x[4] + y[4] + s3 \div Half
       IN <<s1 % Half, s2 % Half, s3 % Half, s4 % Half>> : x \in {a}, y \in {b}})

Add(a, b) == AddCarry(a, b, 0)

\* a - b modulo 2^64.
Sub(a, b) == AddCarry(a, [i \in 1 .. 4 |-> Half - 1 - b[i]], 1)

\* a < n for a small number n.
Below(a, n) == a[4] = 0 /\ a[3] = 0 /\ a[2] = 0 /\ a[1] < n

IsZero(a) == Below(a, 1)

\* The digit characters "0123456789abcdef" and "0123456789ABCDEF".
DigitChars(uppercase) ==
  <<"0", "1", "2", "3", "4", "5", "6", "7", "8", "9">>
    \o (IF uppercase THEN <<"A", "B", "C", "D", "E", "F">>
                     ELSE <<"a", "b", "c", "d", "e", "f">>)

\* cp_unparse_ulonglong, bases 16 and 8: the for loop, filling the buffer
\* from its end.
RECURSIVE ShiftDigits(_, _, _, _)
ShiftDigits(q, base, uppercase, buf) ==
  IF IsZero(q) THEN buf
  ELSE ShiftDigits(Shr(q, IF base = 16 THEN 4 ELSE 3), base, uppercase,
                   <<DigitChars(uppercase)[(q[1] % base) + 1]>> \o buf)

\* Variant: k = q >> 3, an approximation from above.
ApproxEighth(q) == Shr(q, 3)

\* k = Approx[q/10].
ApproxTenth(q) ==
  Add(Add(Add(Shr(q, 4), Shr(q, 5)), Add(Shr(q, 8), Shr(q, 9))),
      Add(Add(Shr(q, 12), Shr(q, 13)), Add(Shr(q, 16), Shr(q, 17))))

\* m = q - d for d = 10 * k.
Remainder(q, k) == Sub(q, Add(Shl(k, 3), Shl(k, 1)))

\* One turn of the while (1) loop past the break: k afterwards.
Correct(q, k) ==
  LET m == Remainder(q, k)
      low == Add(Add(Shr(m, 4), Shr(m, 5)), Add(Shr(m, 8), Shr(m, 9)))
      delta == IF Below(m, 4096) THEN low
               ELSE Add(low, Add(Add(Shr(m, 12), Shr(m, 13)),
                                 Add(Shr(m, 16), Shr(m, 17))))
  IN Add(k, IF IsZero(delta) THEN <<1, 0, 0, 0>> ELSE delta)

\* The while (1) loop: k at the break.
RECURSIVE Tenth(_, _)
Tenth(q, k) ==
  IF Below(Remainder(q, k), 10) THEN k ELSE Tenth(q, Correct(q, k))

\* cp_unparse_ulonglong, base 10: the for loop.
RECURSIVE DecimalDigits(_, _)
DecimalDigits(q, buf) ==
  IF IsZero(q) THEN buf
  ELSE LET k == Tenth(q, ApproxTenth(q))
       IN DecimalDigits(k, <<DigitChars(FALSE)[Remainder(q, k)[1] + 1]>> \o buf)

\* Variant: no digit is written for zero.
cp_unparse_ulonglong_no_zero(q, base, uppercase) ==
  IF base = 16 \/ base = 8 THEN ShiftDigits(q, base, uppercase, << >>)
  ELSE DecimalDigits(q, << >>)

cp_unparse_ulonglong(q, base, uppercase) ==
  LET buf == IF base = 16 \/ base = 8
               THEN ShiftDigits(q, base, uppercase, << >>)
               ELSE DecimalDigits(q, << >>)
  IN IF buf = << >> THEN <<"0">> ELSE buf

\* The decimal text of a number, as StringAccum writes it.
RECURSIVE Decimal(_)
Decimal(n) ==
  IF n < 10 THEN <<DigitChars(FALSE)[n + 1]>>
  ELSE Append(Decimal(n \div 10), DigitChars(FALSE)[(n % 10) + 1])

\* The position of the first character from i on that is no digit.
RECURSIVE SkipDigits(_, _)
SkipDigits(str, i) ==
  IF i < Len(str) /\ At(str, i) \in Digits THEN SkipDigits(str, i + 1) ELSE i

\* 10 * acc + digit over the positions from .. to - 1.
RECURSIVE Fold(_, _, _, _)
Fold(str, from, to, acc) ==
  IF from >= to THEN acc
  ELSE Fold(str, from + 1, to, 10 * acc + DigitOf(At(str, from)))

Smaller(a, b) == IF a < b THEN a ELSE b

AtLeastZero(a) == IF a < 0 THEN 0 ELSE a

CPE_FORMAT == "CPE_FORMAT"

CPE_INVALID == "CPE_INVALID"

CPE_NEGATIVE == "CPE_NEGATIVE"

\* cp_real10(str, frac_digits, return_int_part, return_frac_part): the
\* result, the two parts and cp_errno afterwards.  The numbers of the texts
\* of the model are far below 2^31.
cp_real10(str, frac_digits) ==
  LET len == Len(str)
      fail(e) == [ok |-> FALSE, int_part |-> 0, frac_part |-> 0, cp_errno |-> e]
      negative == At(str, 0) = "-"
      int_s == IF At(str, 0) \in {"-", "+"} THEN 1 ELSE 0
      HasExp(frac_e) == frac_e < len /\ At(str, frac_e) \in {"E", "e"}
      \* The parts, once the ends of the three runs of digits and the
      \* exponent are known.
      Parts(int_e, frac_s, frac_e, exp_s, exp_e, exponent) ==
        LET has_exp == HasExp(frac_e)
            exp_sign == frac_e + 1
            s == IF has_exp THEN exp_e ELSE frac_e
            int1 == Fold(str, int_s, Smaller(int_e, int_e + exponent), 0)
            int2 == Fold(str, frac_s, Smaller(frac_e, frac_s + exponent), int1)
            int3 == int2 * 10 ^ AtLeastZero(frac_s + exponent - frac_e)
            c0 == int_e + exponent
            skipped == Smaller(AtLeastZero(int_s - c0), frac_digits)
            c1 == c0 + skipped
            fd1 == frac_digits - skipped
            nb == Smaller(AtLeastZero(int_e - c1), fd1)
            frac1 == Fold(str, c1, c1 + nb, 0)
            c2 == frac_s + AtLeastZero(exponent)
            nc == Smaller(AtLeastZero(frac_e - c2), fd1 - nb)
            frac2 == Fold(str, c2, c2 + nc, frac1)
            frac3 == frac2 * 10 ^ (fd1 - nb - nc)
        IN IF int_s = int_e /\ frac_s = frac_e THEN fail(CPE_FORMAT)
           ELSE IF has_exp /\ exp_sign = len THEN fail(CPE_FORMAT)
           ELSE IF has_exp /\ (exp_s >= len \/ At(str, exp_s) \notin Digits)
             THEN fail(CPE_FORMAT)
           ELSE IF s # len THEN fail(CPE_FORMAT)
           ELSE [ok |-> TRUE,
                 int_part |-> IF negative THEN 0 - int3 ELSE int3,
                 frac_part |-> IF negative THEN 0 - frac3 ELSE frac3,
                 cp_errno |-> CPE_OK]
      \* The exponent, once its digits are found.
      Exponent(int_e, frac_s, frac_e, exp_s, exp_e) ==
        LET negexp == frac_e + 1 < len /\ At(str, frac_e + 1) = "-"
        IN The({Parts(int_e, frac_s, frac_e, exp_s, exp_e, exponent) :
                  exponent \in {IF ~HasExp(frac_e) THEN 0
                                ELSE IF negexp THEN 0 - Fold(str, exp_s, exp_e, 0)
                                ELSE Fold(str, exp_s, exp_e, 0)}})
      \* The digits of the exponent, once the fraction is found.
      ExponentDigits(int_e, frac_s, frac_e) ==
        LET exp_sign == frac_e + 1
        IN The({The({Exponent(int_e, frac_s, frac_e, exp_s, exp_e) :
                       exp_e \in {SkipDigits(str, exp_s)}}) :
                  exp_s \in {IF exp_sign < len /\ At(str, exp_sign) \in {"-", "+"}
                               THEN exp_sign + 1 ELSE exp_sign}})
      \* The fraction, once the integer digits are found.
      Fraction(int_e) ==
        LET dot == int_e < len /\ At(str, int_e) = "."
        IN The({The({ExponentDigits(int_e, frac_s, frac_e) :
                       frac_e \in {IF dot THEN SkipDigits(str, frac_s) ELSE int_e}}) :
                  frac_s \in {IF dot THEN int_e + 1 ELSE int_e}})
  IN IF len = 0 THEN fail(CPE_FORMAT)
     ELSE IF frac_digits > 9 THEN fail(CPE_INVALID)
     ELSE The({Fraction(int_e) : int_e \in {SkipDigits(str, int_s)}})

\* The for loop of cp_unsigned_real2: fraction after the digits i .. 8.
RECURSIVE RoundDecimals(_, _, _, _)
RoundDecimals(i, frac_part, fraction, two) ==
  IF i >= 9 THEN fraction
  ELSE RoundDecimals(i + 1, frac_part \div 10,
                     (fraction + (frac_part % 10) * two) \div 10, two)

\* Variant: the fraction is cut, not rounded.
RoundHalf(fraction) == fraction \div 2

\* fraction = (fraction + 1) / 2.
RoundUpHalf(fraction) == (fraction + 1) \div 2

\* cp_unsigned_real2(str, frac_bits, return_value): the result,
\* *return_value and cp_errno afterwards.  For frac_bits = 1 the limit
\* (1 << 31) - 1 overflows an int: too_large is what the comparison with
\* it gives.
cp_unsigned_real2(str, frac_bits, too_large) ==
  LET r == cp_real10(str, 9)
      fail(e) == [ok |-> FALSE, return_value |-> 0, cp_errno |-> e]
  IN IF frac_bits >= 29 THEN fail(CPE_INVALID)
     ELSE IF ~r.ok THEN fail(CPE_FORMAT)
     ELSE IF r.int_part < 0 \/ r.frac_part < 0 THEN fail(CPE_NEGATIVE)
     ELSE IF IF frac_bits = 1 THEN too_large
             ELSE r.int_part > 2 ^ (32 - frac_bits) - 1
       THEN fail(CPE_OVERFLOW)
     ELSE [ok |-> TRUE,
           return_value |->
             r.int_part * 2 ^ frac_bits
               + RoundUpHalf(RoundDecimals(0, r.frac_part, 0, 2 * 2 ^ frac_bits)),
           cp_errno |-> CPE_OK]

\* inaccuracy_rounder after its while loop.
RECURSIVE Rounder(_, _)
Rounder(inaccuracy_rounder, one) ==
  IF inaccuracy_rounder * 10 < one
    THEN Rounder(inaccuracy_rounder * 10, one) ELSE inaccuracy_rounder

\* The do loop of cp_unparse_real2.
RECURSIVE RealDigits(_, _, _, _, _)
RealDigits(real, allowable_inaccuracy, one, rounder, sa) ==
  LET adjusted == IF allowable_inaccuracy > one
                    THEN real + one \div 2 - rounder ELSE real
      next == 10 * (adjusted % one)
      out == Append(sa, IF adjusted \div one < 10
                          THEN DigitChars(FALSE)[adjusted \div one + 1] ELSE ":")
  IN IF next > allowable_inaccuracy * 10
       THEN RealDigits(next, allowable_inaccuracy * 10, one, rounder, out)
       ELSE out

\* cp_unparse_real2(real, frac_bits) for unsigned real.  At the bounds of
\* the model no value of the loop reaches 2^31 or falls below zero.
cp_unparse_real2(real, frac_bits) ==
  LET one == 2 ^ frac_bits
      int_part == Decimal(real \div one)
  IN IF real % one = 0 THEN int_part
     ELSE RealDigits(10 * (real % one) + 5, 10, one, Rounder(5, one),
                     Append(int_part, "."))

\* ------------------------------------------------------------------------
\* Addresses
\* ------------------------------------------------------------------------

\* AddressInfo, the lookup of named addresses: names is the set of the
\* queries that find the text they are asked about, and every query made is
\* put on the list of the result.
QueryKinds == {"query_ip", "query_ip_prefix", "query_ip6", "query_ip6_prefix",
               "query_ethernet"}

Query(kind, str, names, found, queries) ==
  IF kind \in names
    THEN [ok |-> TRUE, literal |-> FALSE, queries |-> Append(queries, <<kind, str>>)]
           @@ found
    ELSE [ok |-> FALSE, literal |-> FALSE, value |-> << >>, mask |-> << >>, bits |-> -1,
          queries |-> Append(queries, <<kind, str>>)]

\* What the lookup stores for a name it finds.
NamedIp == [value |-> <<10, 9, 8, 7>>, mask |-> << >>, bits |-> -1]

NamedIpPrefix == [value |-> <<10, 9, 8, 0>>, mask |-> <<255, 255, 255, 0>>, bits |-> -1]

NamedIp6 == [value |-> [i \in 1 .. 16 |-> 6], mask |-> << >>, bits |-> -1]

NamedIp6Prefix == [value |-> [i \in 1 .. 16 |-> 6], mask |-> << >>, bits |-> 48]

NamedEthernet == [value |-> <<0, 1, 2, 3, 4, 5>>, mask |-> << >>, bits |-> -1]

\* A literal's value.
Literal(value, mask, bits, queries) ==
  [ok |-> TRUE, literal |-> TRUE, value |-> value, mask |-> mask, bits |-> bits,
   queries |-> queries]

\* str.find_right(c): the last position of c in str, or -1.
find_right(str, c) ==
  IF \E i \in 1 .. Len(str) : str[i] = c
    THEN (CHOOSE i \in 1 .. Len(str) :
            str[i] = c /\ \A j \in (i + 1) .. Len(str) : str[j] # c) - 1
    ELSE -1

\* The loop that reads one decimal part of an IPv4 address.
RECURSIVE DecimalPart(_, _, _)
DecimalPart(str, pos, part) ==
  IF pos < Len(str) /\ At(str, pos) \in Digits /\ part <= 255
    THEN DecimalPart(str, pos + 1, part * 10 + DigitOf(At(str, pos)))
    ELSE [part |-> part, pos |-> pos]

\* The for loop of cp_ip_address: the position after four parts and the
\* parts, or bad.
RECURSIVE Ip4Loop(_, _, _, _)
Ip4Loop(str, d, pos, value) ==
  IF d >= 4 THEN [bad |-> FALSE, pos |-> pos, value |-> value]
  ELSE LET pos1 == IF d > 0 /\ pos < Len(str) /\ At(str, pos) = "." THEN pos + 1 ELSE pos
           r == DecimalPart(str, pos1, 0)
       IN IF pos1 >= Len(str) \/ At(str, pos1) \notin Digits
            THEN [bad |-> TRUE, pos |-> pos1, value |-> value]
          ELSE IF r.part > 255 THEN [bad |-> TRUE, pos |-> r.pos, value |-> value]
          ELSE Ip4Loop(str, d + 1, r.pos, Append(value, r.part))

cp_ip_address(str, names, queries) ==
  LET r == Ip4Loop(str, 0, 0, << >>)
  IN IF ~r.bad /\ r.pos = Len(str)
       THEN Literal(r.value, << >>, -1, queries)
       ELSE Query("query_ip", str, names, NamedIp, queries)

bad_ip_prefix(str, allow_bare_address, names, queries) ==
  LET q == Query("query_ip_prefix", str, names, NamedIpPrefix, queries)
      b == Query("query_ip", str, names, NamedIp, q.queries)
  IN IF q.ok THEN q
     ELSE IF allow_bare_address /\ b.ok THEN [b EXCEPT !.mask = <<255, 255, 255, 255>>]
     ELSE IF allow_bare_address THEN b
     ELSE q

\* The bytes of 0xFFFFFFFF << (32 - relevant_bits), or of 0 for no bit.
PrefixMask(relevant_bits) ==
  [i \in 1 .. 4 |->
     IF relevant_bits >= 8 * i THEN 255
     ELSE IF relevant_bits <= 8 * (i - 1) THEN 0
     ELSE 256 - 2 ^ (8 * i - relevant_bits)]

\* Variant: a text without a slash is taken as a bare address whatever the
\* caller allows.
cp_ip_prefix_bare(str, allow_bare_address, names) ==
  LET ip == cp_ip_address(str, names, << >>)
  IN IF ip.ok THEN [ip EXCEPT !.mask = <<255, 255, 255, 255>>]
     ELSE bad_ip_prefix(str, allow_bare_address, names, ip.queries)

cp_ip_prefix(str, allow_bare_address, names) ==
  LET slash == find_right(str, "/")
      ip_part == IF slash >= 0 THEN substring(str, 0, slash) ELSE str
      mask_part == IF slash >= 0 THEN substring(str, slash + 1, Len(str)) ELSE << >>
      ip == cp_ip_address(ip_part, names, << >>)
      m == cp_ip_address(mask_part, names, ip.queries)
      n == cp_integer(mask_part, -1, U32(0, 0), CPE_OK)
      relevant_bits == SignedValue(n.return_value)
  IN IF slash < 0 /\ ~allow_bare_address
       THEN bad_ip_prefix(str, allow_bare_address, names, << >>)
     ELSE IF ~ip.ok THEN bad_ip_prefix(str, allow_bare_address, names, ip.queries)
     ELSE IF allow_bare_address /\ Len(mask_part) = 0
       THEN [ip EXCEPT !.mask = <<255, 255, 255, 255>>]
     ELSE IF m.ok
       THEN [m EXCEPT !.value = ip.value, !.mask = m.value,
                      !.literal = ip.literal /\ m.literal]
     ELSE IF n.ok /\ relevant_bits >= 0 /\ relevant_bits <= 32
       THEN [ip EXCEPT !.mask = PrefixMask(relevant_bits), !.queries = m.queries]
     ELSE bad_ip_prefix(str, allow_bare_address, names, m.queries)

isxdigit(c) == c \in DOMAIN xvalue

\* The loop that reads one hexadecimal part of an IPv6 address.
RECURSIVE HexPart(_, _, _)
HexPart(str, pos, part) ==
  IF pos < Len(str) /\ isxdigit(At(str, pos)) /\ part <= 65535
    THEN HexPart(str, pos + 1, part * 16 + xvalue[At(str, pos)])
    ELSE [part |-> part, pos |-> pos]

\* The for loop of cp_ip6_address; parts is indexed from 0.
RECURSIVE Ip6Loop(_, _, _, _, _, _)
Ip6Loop(str, d, pos, coloncolon, last_part_pos, parts) ==
  LET len == Len(str)
      here == [bad |-> FALSE, d |-> d, pos |-> pos, coloncolon |-> coloncolon,
               last_part_pos |-> last_part_pos, parts |-> parts]
  IN IF d >= 8 THEN here
     ELSE
       LET cc == /\ coloncolon < 0
                 /\ pos < len - 1
                 /\ At(str, pos) = ":"
                 /\ At(str, pos + 1) = ":"
           pos1 == IF cc THEN pos + 2
                   ELSE IF /\ d > 0
                           /\ pos < len - 1
                           /\ At(str, pos) = ":"
                           /\ isxdigit(At(str, pos + 1))
                     THEN pos + 1
                   ELSE pos
           coloncolon1 == IF cc THEN d ELSE coloncolon
           r == HexPart(str, pos1, 0)
       IN IF pos1 >= len \/ ~isxdigit(At(str, pos1))
            THEN [here EXCEPT !.pos = pos1, !.coloncolon = coloncolon1]
          ELSE IF r.part > 65535
            THEN [here EXCEPT !.bad = TRUE, !.pos = r.pos, !.coloncolon = coloncolon1]
          ELSE Ip6Loop(str, d + 1, r.pos, coloncolon1, pos1,
                       [parts EXCEPT ![d] = r.part])

\* Variant: the zero blocks go behind all the parts read.
ZeroBlocksLast(parts, d, coloncolon) ==
  [x \in 0 .. 7 |-> IF x < d THEN parts[x] ELSE 0]

\* parts after the zero blocks are put in for the ::.
ZeroBlocks(parts, d, coloncolon) ==
  [x \in 0 .. 7 |->
     IF x < coloncolon THEN parts[x]
     ELSE IF x < coloncolon + 8 - d THEN 0
     ELSE parts[x - (8 - d)]]

\* The bytes of the eight parts.
Ip6Bytes(parts) ==
  [i \in 1 .. 16 |->
     IF i % 2 = 1 THEN (parts[(i - 1) \div 2] \div 256) % 256
     ELSE parts[(i - 1) \div 2] % 256]

\* cp_ip6_address.  The parts not yet read hold 0 here; they are written
\* before they are read, but for a text that starts with a dot and names an
\* address: there the code writes in front of parts.
cp_ip6_address(str, names, queries) ==
  LET len == Len(str)
      \* The statements after the for loop, l being what the loop left and
      \* ip4a what cp_ip_address makes of the text from the last part on.
      AfterLoop(l, ip4a) ==
        LET dotted == ~l.bad /\ l.pos < len /\ l.d <= 7 /\ At(str, l.pos) = "."
            tail == dotted /\ ip4a.ok
            queries1 == IF dotted THEN ip4a.queries ELSE queries
            parts == IF ~tail THEN l.parts
                     ELSE [x \in 0 .. 7 |->
                             IF x = l.d - 1 THEN ip4a.value[1] * 256 + ip4a.value[2]
                             ELSE IF x = l.d THEN ip4a.value[3] * 256 + ip4a.value[4]
                             ELSE l.parts[x]]
            d == IF tail THEN l.d + 1 ELSE l.d
            pos == IF tail THEN len ELSE l.pos
            lookup == Query("query_ip6", str, names, NamedIp6, queries1)
        IN IF l.bad THEN lookup
           ELSE IF (d < 8 /\ l.coloncolon < 0) \/ (d = 8 /\ l.coloncolon >= 0) THEN lookup
           ELSE IF pos < len THEN lookup
           ELSE [Literal(Ip6Bytes(IF d < 8 THEN ZeroBlocks(parts, d, l.coloncolon)
                                           ELSE parts),
                         << >>, -1, queries1)
                   EXCEPT !.literal = ~tail \/ ip4a.literal]
  IN The({The({AfterLoop(l, ip4a) :
                 ip4a \in {cp_ip_address(substring(str, l.last_part_pos,
                                                   len - l.last_part_pos),
                                         names, queries)}}) :
            l \in {Ip6Loop(str, 0, 0, -1, 0, [x \in 0 .. 7 |-> 0])}})

bad_ip6_prefix(str, allow_bare_address, names, queries) ==
  LET q == Query("query_ip6_prefix", str, names, NamedIp6Prefix, queries)
      b == Query("query_ip6", str, names, NamedIp6, q.queries)
  IN IF q.ok THEN q
     ELSE IF allow_bare_address /\ b.ok THEN [b EXCEPT !.bits = 128]
     ELSE IF allow_bare_address THEN b
     ELSE q

\* The first for loop over the mask: the count of its leading bytes 255.
RECURSIVE LeadingOnes(_, _)
LeadingOnes(mask, pos) ==
  IF pos < 16 /\ mask[pos + 1] = 255 THEN LeadingOnes(mask, pos + 1) ELSE pos

\* The i of the second loop for which comp_plus_1 == (1 << (8 - i)), or -1.
PartialBits(byte) ==
  IF \E i \in 0 .. 7 : 255 - byte + 1 = 2 ^ (8 - i)
    THEN CHOOSE i \in 0 .. 7 : 255 - byte + 1 = 2 ^ (8 - i)
    ELSE -1

\* Variant of the last loop over the mask: every byte is looked at.
RECURSIVE ZeroBytesEach(_, _)
ZeroBytesEach(mask, pos) ==
  IF pos < 16 /\ mask[pos + 1] = 0 THEN ZeroBytesEach(mask, pos + 1) ELSE pos

\* The last for loop over the mask, whose body and whose step both add 1
\* to pos.
RECURSIVE ZeroBytes(_, _)
ZeroBytes(mask, pos) ==
  IF pos < 16 /\ mask[pos + 1] = 0 THEN ZeroBytes(mask, pos + 2) ELSE pos

\* The check of a mask given as an address: pos after the loops and
\* relevant_bits.
MaskBits(mask) ==
  LET lead == LeadingOnes(mask, 0)
      i == IF lead < 16 THEN PartialBits(mask[lead + 1]) ELSE -1
      pos == IF i >= 0 THEN lead + 1 ELSE lead
  IN [pos |-> ZeroBytes(mask, pos),
      relevant_bits |-> 8 * lead + (IF i >= 0 THEN i ELSE 0)]

cp_ip6_prefix(str, allow_bare_address, names) ==
  LET slash == find_right(str, "/")
      ip_part == IF slash >= 0 THEN substring(str, 0, slash) ELSE str
      mask_part == IF slash >= 0 THEN substring(str, slash + 1, Len(str)) ELSE << >>
      \* The statements after the two parts are parsed as addresses, ip and
      \* m being the results.
      Parsed(ip, m) ==
        LET check == MaskBits(m.value)
            n == cp_integer(mask_part, -1, U32(0, 0), CPE_OK)
            relevant_bits == SignedValue(n.return_value)
        IN IF ~ip.ok THEN bad_ip6_prefix(str, allow_bare_address, names, ip.queries)
           ELSE IF allow_bare_address /\ Len(mask_part) = 0
             THEN [ip EXCEPT !.bits = 64]
           ELSE IF m.ok
             THEN IF check.pos < 16
                    THEN [ok |-> FALSE, literal |-> ip.literal /\ m.literal,
                          value |-> << >>, mask |-> m.value,
                          bits |-> -1, queries |-> m.queries]
                    ELSE [ok |-> TRUE, literal |-> ip.literal /\ m.literal,
                          value |-> ip.value, mask |-> m.value,
                          bits |-> check.relevant_bits, queries |-> m.queries]
           ELSE IF n.ok /\ relevant_bits >= 0 /\ relevant_bits <= 128
             THEN [ok |-> TRUE, literal |-> ip.literal, value |-> ip.value,
                   mask |-> << >>, bits |-> relevant_bits, queries |-> m.queries]
           ELSE bad_ip6_prefix(str, allow_bare_address, names, m.queries)
  IN IF slash < 0 /\ ~allow_bare_address
       THEN bad_ip6_prefix(str, allow_bare_address, names, << >>)
     ELSE The({The({Parsed(ip, m) :
                      m \in {cp_ip6_address(mask_part, names, ip.queries)}}) :
                 ip \in {cp_ip6_address(ip_part, names, << >>)}})

\* The for loop of cp_ethernet_address: the position after six parts and
\* the parts, or bad.
RECURSIVE EtherLoop(_, _, _, _)
EtherLoop(str, d, i, value) ==
  LET len == Len(str)
      two == i < len - 1 /\ isxdigit(At(str, i)) /\ isxdigit(At(str, i + 1))
      one == i < len /\ isxdigit(At(str, i))
      byte == IF two THEN xvalue[At(str, i)] * 16 + xvalue[At(str, i + 1)]
              ELSE xvalue[At(str, i)]
      i1 == IF two THEN i + 2 ELSE i + 1
  IN IF ~two /\ ~one THEN [bad |-> TRUE, i |-> i, value |-> value]
     ELSE IF d = 5 THEN [bad |-> FALSE, i |-> i1, value |-> Append(value, byte)]
     ELSE IF i1 >= len - 1 \/ At(str, i1) # ":" THEN [bad |-> TRUE, i |-> i1, value |-> value]
     ELSE EtherLoop(str, d + 1, i1 + 1, Append(value, byte))

cp_ethernet_address(str, names) ==
  LET r == EtherLoop(str, 0, 0, << >>)
  IN IF ~r.bad /\ r.i = Len(str)
       THEN Literal(r.value, << >>, -1, << >>)
       ELSE Query("query_ethernet", str, names, NamedEthernet, << >>)

\* ------------------------------------------------------------------------
\* Type registry
\* ------------------------------------------------------------------------

\* The descriptors cp_va_static_initialize registers: name |-> internal tag.
\* "KEYWORDS" is registered with the tag of "MIXED_KEYWORDS".
BuiltinArgTypes ==
  [OPTIONAL |-> "cpiOptional",
   UNMIXED_KEYWORDS |-> "cpiUnmixedKeywords",
   MIXED_KEYWORDS |-> "cpiMixedKeywords",
   KEYWORDS |-> "cpiMixedKeywords",
   IGNORE |-> "cpiIgnore",
   IGNORE_REST |-> "cpiIgnoreRest",
   arg |-> "cpiArgument",
   string |-> "cpiString",
   word |-> "cpiWord",
   bool |-> "cpiBool",
   byte |-> "cpiByte",
   short |-> "cpiShort",
   u_short |-> "cpiUnsignedShort",
   int |-> "cpiInteger",
   u_int |-> "cpiUnsigned",
   real2 |-> "cpiReal2",
   u_real2 |-> "cpiNonnegReal2",
   real10 |-> "cpiReal10",
   u_real10 |-> "cpiNonnegReal10",
   msec |-> "cpiMilliseconds",
   timeval |-> "cpiTimeval",
   ip_addr |-> "cpiIPAddress",
   ip_prefix |-> "cpiIPPrefix",
   ip_addr_or_prefix |-> "cpiIPAddressOrPrefix",
   ip_addr_set |-> "cpiIPAddressSet",
   ether_addr |-> "cpiEthernetAddress",
   element |-> "cpiElement",
   ip6_addr |-> "cpiIP6Address",
   ip6_prefix |-> "cpiIP6Prefix",
   ip6_addr_or_prefix |-> "cpiIP6AddressOrPrefix"]

\* ------------------------------------------------------------------------
\* Inputs of the model
\* ------------------------------------------------------------------------

\* Type names a declaration of the model may use: the markers, the ignored
\* slot, one concrete type, and a name that is never registered.
CommandNames ==
  {"OPTIONAL", "UNMIXED_KEYWORDS", "KEYWORDS", "IGNORE", "IGNORE_REST",
   "bool", "no_such_type"}

\* Keyword names a declaration of the model may use; two keyword slots may
\* carry the same name.
KeywordNames == {<<"K">>}

\* Input arguments: a bool literal, a declared keyword with a good and with
\* a bad bool, an undeclared keyword, and a string that is no keyword.
Tokens ==
  {<<"1">>,
   <<"K", " ", "1">>,
   <<"K", " ", "x">>,
   <<"U", " ", "1">>,
   <<"-">>}

\* Arguments cp_spacevec can produce hold no unquoted whitespace.
SpaceTokens == {t \in Tokens : \A i \in 1..Len(t) : ~isspace(t[i])}

EntryPoints == {"cp_va_parse", "cp_va_space_parse", "cp_va_parse_keyword"}

\* Numbers of messages the caller's ErrorHandler holds at call entry.
PriorErrorCounts == {0, 1}

\* What v.i of a slot can hold when the call has not assigned it: zero or
\* not zero.
StaleInts == {0, 1}

\* ------------------------------------------------------------------------
\* State
\* ------------------------------------------------------------------------

VARIABLES
  argtype_hash,     \* registry: function from registered names to descriptors
  cp_values_ptr,    \* the pointer cp_values: "null", "valid" or "freed"
  cp_values,        \* the scratch array: the slots the call has reached
  pc,               \* position of the binding call
  entry,            \* the entry point that called cp_va_parsev
  keywords_only,
  nvalues, nrequired, npositional, mixed_keywords, ignore_rest,
  nerrors_in,
  errh,             \* the messages the ErrorHandler has received
  args,             \* the input arguments consumed so far
  arg_fate,         \* what the assignment loop did with each of them
  npositional_supplied,
  keyword_error_sa, \* the items accumulated by add_keyword_error
  parse_log,        \* slots whose parse operation was invoked, in order
  store_log,        \* slots whose store operation was invoked, in order
  storage,          \* caller-provided storage, by slot of the declaration
  retval,           \* value returned by the call, or "none"
  nregistered,      \* per name, the registrations that returned 0
  nunregistered,    \* per name, the unregistrations that found the name
  call_fn,          \* the library function applied to call_in, or "none"
  call_in,          \* its input
  call_out          \* << >> before it has returned, then <<result>>

vars ==
  <<argtype_hash, cp_values_ptr, cp_values, pc, entry, keywords_only,
    nvalues, nrequired, npositional, mixed_keywords, ignore_rest,
    nerrors_in, errh, args, arg_fate, npositional_supplied,
    keyword_error_sa, parse_log, store_log, storage, retval,
    nregistered, nunregistered, call_fn, call_in, call_out>>

\* The record of the registry operations.
registry_history == <<nregistered, nunregistered>>

\* The application of a library function outside a binding call.
harness == <<call_fn, call_in, call_out>>

\* The locals of a binding call and what it hands back.
locals ==
  <<pc, entry, keywords_only, nvalues, nrequired, npositional,
    mixed_keywords, ignore_rest, nerrors_in, errh, args, arg_fate,
    npositional_supplied, keyword_error_sa, parse_log, store_log, storage,
    retval>>

\* The indices of the scratch array.
Slots == 0 .. (CP_VALUES_SIZE - 1)

\* A cp_value: the fields cp_va_parsev reads.  v_i is the int member of the
\* union v; v.b shares its low byte.
BlankValue == [argtype |-> NULL, keyword |-> NULL, v_i |-> 0, v_string |-> EmptyString]

\* The scratch array is kept as a function on the slots 0 .. n that the
\* running call has reached, n < CP_VALUES_SIZE; it neither reads nor writes
\* a slot above them.
NoSlots == [i \in {} |-> BlankValue]

\* &cp_values[n]: slot n is reached.
Touch(values, n) ==
  [i \in (DOMAIN values) \cup {n} |-> IF i \in DOMAIN values THEN values[i] ELSE BlankValue]

NoStorage == [i \in 0 .. (MaxValues - 1) |-> "unset"]

\* ErrorHandler::error: the message reaches the sink and is counted.
ErrhError(h, kind, detail) == Append(h, [kind |-> kind, detail |-> detail])

\* ErrorHandler::nerrors
nerrors(h) == Len(h)

find_argtype(hash, command) ==
  IF command \in DOMAIN hash THEN command ELSE NULL

internal(hash, argtype) == hash[argtype].internal

\* The internal tag of a type registered through the public
\* cp_register_argtype: -1, kept as a string like the enumerators.
NoInternal == "-1"

\* How often name occurs in a record of registry operations.
Count(f, name) == IF name \in DOMAIN f THEN f[name] ELSE 0

Bump(f, name) ==
  [n \in (DOMAIN f) \cup {name} |-> IF n = name THEN Count(f, name) + 1 ELSE f[n]]

\* Variant: a conflicting registration leaves use_count alone.
cp_register_argtype_static_strict(hash, name, desc, extra, parse, store, intern) ==
  IF find_argtype(hash, name) # NULL
    THEN IF \/ desc # hash[name].description
            \/ extra # hash[name].extra
            \/ parse # hash[name].parse
            \/ store # hash[name].store
            \/ intern # hash[name].internal
           THEN [hash |-> hash, result |-> 0 - 1]
           ELSE [hash |-> [hash EXCEPT ![name].use_count = @ + 1], result |-> 0]
    ELSE [hash |-> [n \in (DOMAIN hash) \cup {name} |->
                      IF n = name
                        THEN [description |-> desc, extra |-> extra, parse |-> parse,
                              store |-> store, internal |-> intern, use_count |-> 1]
                        ELSE hash[n]],
          result |-> 0]

\* The static cp_register_argtype: the registry and the value returned.
\* use_count is incremented before the descriptors are compared.  (new
\* cp_argtype is taken to succeed.)
cp_register_argtype_static(hash, name, desc, extra, parse, store, intern) ==
  IF find_argtype(hash, name) # NULL
    THEN [hash |-> [hash EXCEPT ![name].use_count = @ + 1],
          result |-> IF \/ desc # hash[name].description
                        \/ extra # hash[name].extra
                        \/ parse # hash[name].parse
                        \/ store # hash[name].store
                        \/ intern # hash[name].internal
                       THEN 0 - 1 ELSE 0]
    ELSE [hash |-> [n \in (DOMAIN hash) \cup {name} |->
                      IF n = name
                        THEN [description |-> desc, extra |-> extra, parse |-> parse,
                              store |-> store, internal |-> intern, use_count |-> 1]
                        ELSE hash[n]],
          result |-> 0]

\* Variant: the descriptor stays linked when use_count reaches zero.
unregister_argtype_keep(hash, name) ==
  IF find_argtype(hash, name) = NULL THEN hash
  ELSE [hash EXCEPT ![name].use_count = @ - 1]

\* cp_unregister_argtype: the registry after it.
unregister_argtype(hash, name) ==
  IF find_argtype(hash, name) = NULL THEN hash
  ELSE IF hash[name].use_count - 1 <= 0
    THEN [n \in (DOMAIN hash) \ {name} |-> hash[n]]
  ELSE [hash EXCEPT ![name].use_count = @ - 1]

\* The registrations of cp_va_static_initialize, one per built-in name.
\* The description and the extra flag of a built-in are not read by the
\* code modelled here: the name stands for the description, 0 for extra.
RegisterBuiltins(hash) ==
  [n \in (DOMAIN hash) \cup (DOMAIN BuiltinArgTypes) |->
     IF n \in DOMAIN BuiltinArgTypes
       THEN cp_register_argtype_static(hash, n, n, 0, "default_parsefunc",
                                       "default_storefunc", BuiltinArgTypes[n]).hash[n]
       ELSE hash[n]]

\* Its record: the registrations among them that returned 0.
BuiltinsRegistered(hash, f) ==
  [n \in (DOMAIN f) \cup (DOMAIN BuiltinArgTypes) |->
     IF /\ n \in DOMAIN BuiltinArgTypes
        /\ cp_register_argtype_static(hash, n, n, 0, "default_parsefunc",
                                      "default_storefunc", BuiltinArgTypes[n]).result = 0
       THEN Count(f, n) + 1
       ELSE Count(f, n)]

\* Values of the locals of cp_va_parsev while no call is running.
LocalsIdle ==
  /\ entry = "none"
  /\ keywords_only = FALSE
  /\ nvalues = 0
  /\ nrequired = 0 - 1
  /\ npositional = 0 - 1
  /\ mixed_keywords = FALSE
  /\ ignore_rest = FALSE
  /\ nerrors_in = 0
  /\ errh = << >>
  /\ args = << >>
  /\ arg_fate = << >>
  /\ npositional_supplied = 0
  /\ keyword_error_sa = << >>
  /\ parse_log = << >>
  /\ store_log = << >>
  /\ storage = NoStorage
  /\ retval = "none"

\* The program before cp_va_static_initialize.
ProgramInit ==
  /\ argtype_hash = << >>
  /\ nregistered = << >>
  /\ nunregistered = << >>
  /\ cp_values_ptr = "null"
  /\ cp_values = NoSlots
  /\ pc = "idle"
  /\ LocalsIdle

Init ==
  /\ ProgramInit
  /\ call_fn = "none"
  /\ call_in = << >>
  /\ call_out = << >>

\* ------------------------------------------------------------------------
\* Initialization
\* ------------------------------------------------------------------------

\* cp_va_static_initialize: registers the built-in types and allocates the
\* scratch array.  new cp_value[] constructs v_string and leaves the union v
\* uninitialized; what a call then finds in v.i is drawn where the call
\* reads it without having written it (ReadIgnore).
cp_va_static_initialize ==
  /\ pc = "idle"
  /\ cp_values_ptr = "null"
  /\ argtype_hash' = RegisterBuiltins(argtype_hash)
  /\ nregistered' = BuiltinsRegistered(argtype_hash, nregistered)
  /\ cp_values_ptr' = "valid"
  /\ cp_values' = NoSlots
  /\ UNCHANGED <<nunregistered, harness, pc, entry, keywords_only, nvalues, nrequired, npositional,
                 mixed_keywords, ignore_rest, nerrors_in, errh, args, arg_fate,
                 npositional_supplied, keyword_error_sa, parse_log,
                 store_log, storage, retval>>

\* cp_va_static_cleanup: every descriptor is deleted, whatever its
\* use_count, and the scratch array is deleted; the pointer cp_values is
\* not reset and dangles.  (A later cp_va_static_initialize fails its
\* assert(!cp_values).)
cp_va_static_cleanup ==
  /\ pc = "idle"
  /\ cp_values_ptr = "valid"
  /\ argtype_hash' = << >>
  /\ cp_values_ptr' = "freed"
  /\ cp_values' = NoSlots
  /\ UNCHANGED <<registry_history, harness, locals>>

\* ------------------------------------------------------------------------
\* Registering and unregistering types
\* ------------------------------------------------------------------------

\* The names the program registers and unregisters: one that
\* cp_va_static_initialize registers too, and one of its own.
RegistryNames == {"bool", "my_type"}

\* The parse functions it registers them with.
UserParseFuncs == {"my_parsefunc", "other_parsefunc"}

\* The public cp_register_argtype(name, desc, extra, parse, store).
cp_register_argtype ==
  /\ pc = "idle"
  /\ \E name \in RegistryNames, parse \in UserParseFuncs :
       LET r == cp_register_argtype_static(argtype_hash, name, "my type", 0, parse,
                                           "my_storefunc", NoInternal)
       IN /\ Count(nregistered, name) < MaxRegistered
          /\ find_argtype(argtype_hash, name) # NULL =>
               argtype_hash[name].use_count < MaxUseCount
          /\ argtype_hash' = r.hash
          /\ nregistered' = (IF r.result = 0 THEN Bump(nregistered, name) ELSE nregistered)
          /\ call_fn' = "cp_register_argtype"
          /\ call_in' = <<name, parse>>
          /\ call_out' = <<r.result>>
  /\ UNCHANGED <<nunregistered, cp_values_ptr, cp_values, locals>>

\* cp_unregister_argtype(name)
cp_unregister_argtype ==
  /\ pc = "idle"
  /\ \E name \in RegistryNames :
       /\ Count(nunregistered, name) < MaxUseCount
       /\ argtype_hash' = unregister_argtype(argtype_hash, name)
       /\ nunregistered' = (IF find_argtype(argtype_hash, name) # NULL
                              THEN Bump(nunregistered, name) ELSE nunregistered)
       /\ call_fn' = "cp_unregister_argtype"
       /\ call_in' = <<name>>
       /\ call_out' = << >>
  /\ UNCHANGED <<nregistered, cp_values_ptr, cp_values, locals>>

\* ------------------------------------------------------------------------
\* Entry into cp_va_parsev
\* ------------------------------------------------------------------------

\* The ErrorHandler the caller passes, holding n earlier messages.
PriorErrors(n) == [i \in 1 .. n |-> [kind |-> "prior", detail |-> << >>]]

\* A binding call made while cp_values is null.
CallUninitialized ==
  /\ pc = "idle"
  /\ cp_values_ptr = "null"
  /\ \E e \in EntryPoints, n \in PriorErrorCounts :
       /\ entry' = e
       /\ keywords_only' = (e = "cp_va_parse_keyword")
       /\ errh' = ErrhError(PriorErrors(n), "out of memory in cp_va_parse", << >>)
  /\ retval' = 0 - 1
  /\ pc' = "done"
  /\ UNCHANGED <<registry_history, harness, argtype_hash, cp_values_ptr, cp_values, nvalues, nrequired,
                 npositional, mixed_keywords, ignore_rest, nerrors_in, args, arg_fate,
                 npositional_supplied, keyword_error_sa, parse_log,
                 store_log, storage>>

\* cp_va_parse, cp_va_space_parse or cp_va_parse_keyword calls cp_va_parsev;
\* the locals are initialized.
Call ==
  /\ pc = "idle"
  /\ cp_values_ptr # "null"
  /\ \E e \in EntryPoints, n \in PriorErrorCounts :
       /\ entry' = e
       /\ keywords_only' = (e = "cp_va_parse_keyword")
       /\ errh' = PriorErrors(n)
       /\ nerrors_in' = n
       /\ nrequired' = (IF e = "cp_va_parse_keyword" THEN 0 ELSE 0 - 1)
       /\ npositional' = (IF e = "cp_va_parse_keyword" THEN 0 ELSE 0 - 1)
       /\ ignore_rest' = (e = "cp_va_parse_keyword")
  /\ nvalues' = 0
  /\ mixed_keywords' = FALSE
  /\ pc' = "spec"
  /\ UNCHANGED <<registry_history, harness, argtype_hash, cp_values_ptr, cp_values, args, arg_fate,
                 npositional_supplied, keyword_error_sa, parse_log,
                 store_log, storage, retval>>

\* A call that runs on the deleted scratch array reads and writes freed
\* storage: it either goes on as if the array were still there, or the
\* access faults and the process ends.
UseAfterFreeFault ==
  /\ pc = "spec"
  /\ cp_values_ptr = "freed"
  /\ nvalues = 0
  /\ pc' = "crashed"
  /\ UNCHANGED <<registry_history, harness, argtype_hash, cp_values_ptr,
                 cp_values, entry, keywords_only, nvalues, nrequired,
                 npositional, mixed_keywords, ignore_rest, nerrors_in, errh,
                 args, arg_fate, npositional_supplied, keyword_error_sa,
                 parse_log, store_log, storage, retval>>

\* ------------------------------------------------------------------------
\* Reading the declaration (the while (1) loop)
\* ------------------------------------------------------------------------

\* The declarations the model draws: any entries while fewer than MaxValues
\* values are declared, markers and the terminator after that, and runs of
\* positional IGNORE entries of any length up to the scratch array's.
IgnoreRun ==
  /\ nrequired < 0
  /\ npositional < 0
  /\ \A i \in 0 .. (nvalues - 1) : cp_values[i].argtype = "IGNORE"

AddsValue(cmd) == cmd \in {"IGNORE", "bool"}

EntryAllowed(cmd) ==
  \/ nvalues < MaxValues
  \/ nvalues = MaxValues /\ ~AddsValue(cmd)
  \/ nvalues >= MaxValues /\ cmd = "IGNORE" /\ IgnoreRun

TerminatorAllowed ==
  nvalues <= MaxValues \/ nvalues >= CP_VALUES_SIZE - 2

\* The keyword read for slot nvalues: one vararg when a keyword marker has
\* been seen, else none.
KeywordChoices == IF npositional >= 0 THEN KeywordNames ELSE {NULL}

\* v->argtype = 0; v->keyword = kw, for v = &cp_values[nvalues].
ResetSlot(values, n, kw) ==
  [Touch(values, n) EXCEPT ![n].argtype = NULL, ![n].keyword = kw]

\* Variant: the threshold is assigned whether or not it is already set.
SetAlways(x, n) == n

\* if (x < 0) x = nvalues: the value of x afterwards.
SetIfUnset(x, n) == IF x < 0 THEN n ELSE x

\* The code at label done: the defaults of nrequired and npositional.
DoneDefaults(nreq, npos, nval) ==
  /\ nrequired' = SetIfUnset(nreq, nval)
  /\ npositional' = SetIfUnset(npos, nval)
  /\ pc' = "assign"

\* nvalues == CP_VALUES_SIZE - 1: no room for another entry.
TooManyArguments ==
  /\ pc = "spec"
  /\ nvalues = CP_VALUES_SIZE - 1
  /\ errh' = ErrhError(errh, "too many arguments to cp_va_parsev!", << >>)
  /\ retval' = 0 - 1
  /\ pc' = "done"
  /\ UNCHANGED <<registry_history, harness, argtype_hash, cp_values_ptr, cp_values, entry,
                 keywords_only, nvalues, nrequired, npositional,
                 mixed_keywords, ignore_rest, nerrors_in, args, arg_fate,
                 npositional_supplied, keyword_error_sa, parse_log,
                 store_log, storage>>

\* The terminator: a null keyword inside the keyword region, a null type
\* name outside it.
ReadTerminator ==
  /\ pc = "spec"
  /\ nvalues # CP_VALUES_SIZE - 1
  /\ TerminatorAllowed
  /\ cp_values' = ResetSlot(cp_values, nvalues, NULL)
  /\ DoneDefaults(nrequired, npositional, nvalues)
  /\ UNCHANGED <<registry_history, harness, argtype_hash, cp_values_ptr, entry, keywords_only, nvalues,
                 mixed_keywords, ignore_rest, nerrors_in, errh, args, arg_fate,
                 npositional_supplied, keyword_error_sa, parse_log,
                 store_log, storage, retval>>

\* find_argtype fails: the error is reported and control goes to done.
ReadUnknownType ==
  /\ pc = "spec"
  /\ nvalues # CP_VALUES_SIZE - 1
  /\ \E kw \in KeywordChoices, cmd \in CommandNames :
       /\ EntryAllowed(cmd)
       /\ find_argtype(argtype_hash, cmd) = NULL
       /\ cp_values' = ResetSlot(cp_values, nvalues, kw)
       /\ errh' = ErrhError(errh, "unknown argument type", << >>)
  /\ DoneDefaults(nrequired, npositional, nvalues)
  /\ UNCHANGED <<registry_history, harness, argtype_hash, cp_values_ptr, entry, keywords_only, nvalues,
                 mixed_keywords, ignore_rest, nerrors_in, args, arg_fate,
                 npositional_supplied, keyword_error_sa, parse_log,
                 store_log, storage, retval>>

\* An entry whose registered type has the given internal tag is read.
ReadsTag(kw, cmd, tag) ==
  /\ EntryAllowed(cmd)
  /\ find_argtype(argtype_hash, cmd) # NULL
  /\ internal(argtype_hash, find_argtype(argtype_hash, cmd)) = tag
  /\ kw \in KeywordChoices

\* cpOptional
ReadOptional ==
  /\ pc = "spec"
  /\ nvalues # CP_VALUES_SIZE - 1
  /\ \E kw \in KeywordChoices, cmd \in CommandNames :
       /\ ReadsTag(kw, cmd, "cpiOptional")
       /\ cp_values' = ResetSlot(cp_values, nvalues, kw)
  /\ nrequired' = SetIfUnset(nrequired, nvalues)
  /\ UNCHANGED <<registry_history, harness, argtype_hash, cp_values_ptr, pc, entry, keywords_only,
                 nvalues, npositional, mixed_keywords, ignore_rest,
                 nerrors_in, errh, args, arg_fate, npositional_supplied,
                 keyword_error_sa, parse_log, store_log, storage, retval>>

\* cpUnmixedKeywords, cpMixedKeywords, cpKeywords
ReadKeywords ==
  /\ pc = "spec"
  /\ nvalues # CP_VALUES_SIZE - 1
  /\ \E kw \in KeywordChoices, cmd \in CommandNames,
        tag \in {"cpiUnmixedKeywords", "cpiMixedKeywords"} :
       /\ ReadsTag(kw, cmd, tag)
       /\ cp_values' = ResetSlot(cp_values, nvalues, kw)
       /\ mixed_keywords' = (tag = "cpiMixedKeywords")
  /\ nrequired' = SetIfUnset(nrequired, nvalues)
  /\ npositional' = SetIfUnset(npositional, nvalues)
  /\ UNCHANGED <<registry_history, harness, argtype_hash, cp_values_ptr, pc, entry, keywords_only,
                 nvalues, ignore_rest, nerrors_in, errh, args, arg_fate,
                 npositional_supplied, keyword_error_sa, parse_log,
                 store_log, storage, retval>>

\* What v.i of slot nvalues holds when an IGNORE entry claims the slot: the
\* entry does not assign it, so it is what new[] or an earlier call left
\* there.  Only a slot of the keyword region has its v.i read.
StaleChoices == IF npositional >= 0 THEN StaleInts ELSE {0}

\* cpIgnore: the slot is counted; v.i is not assigned.
ReadIgnore ==
  /\ pc = "spec"
  /\ nvalues # CP_VALUES_SIZE - 1
  /\ \E kw \in KeywordChoices, cmd \in CommandNames, stale \in StaleChoices :
       /\ ReadsTag(kw, cmd, "cpiIgnore")
       /\ nvalues \in Slots
       /\ cp_values' = [Touch(cp_values, nvalues) EXCEPT ![nvalues].argtype = find_argtype(argtype_hash, cmd),
                                         ![nvalues].keyword = kw,
                                         ![nvalues].v_i = stale]
  /\ nvalues' = nvalues + 1
  /\ UNCHANGED <<registry_history, harness, argtype_hash, cp_values_ptr, pc, entry, keywords_only,
                 nrequired, npositional, mixed_keywords, ignore_rest,
                 nerrors_in, errh, args, arg_fate, npositional_supplied,
                 keyword_error_sa, parse_log, store_log, storage, retval>>

\* cpIgnoreRest
ReadIgnoreRest ==
  /\ pc = "spec"
  /\ nvalues # CP_VALUES_SIZE - 1
  /\ \E kw \in KeywordChoices, cmd \in CommandNames :
       /\ ReadsTag(kw, cmd, "cpiIgnoreRest")
       /\ cp_values' = ResetSlot(cp_values, nvalues, kw)
  /\ ignore_rest' = TRUE
  /\ DoneDefaults(SetIfUnset(nrequired, nvalues), npositional, nvalues)
  /\ UNCHANGED <<registry_history, harness, argtype_hash, cp_values_ptr, entry, keywords_only, nvalues,
                 mixed_keywords, nerrors_in, errh, args, arg_fate,
                 npositional_supplied, keyword_error_sa, parse_log,
                 store_log, storage, retval>>

\* A concrete ArgSpec: the slot gets its type and v.i = 0.
ReadArgSpec ==
  /\ pc = "spec"
  /\ nvalues # CP_VALUES_SIZE - 1
  /\ \E kw \in KeywordChoices, cmd \in CommandNames :
       /\ ReadsTag(kw, cmd, "cpiBool")
       /\ nvalues \in Slots
       /\ cp_values' = [Touch(cp_values, nvalues) EXCEPT ![nvalues].argtype = find_argtype(argtype_hash, cmd),
                                         ![nvalues].keyword = kw,
                                         ![nvalues].v_i = 0]
  /\ nvalues' = nvalues + 1
  /\ UNCHANGED <<registry_history, harness, argtype_hash, cp_values_ptr, pc, entry, keywords_only,
                 nrequired, npositional, mixed_keywords, ignore_rest,
                 nerrors_in, errh, args, arg_fate, npositional_supplied,
                 keyword_error_sa, parse_log, store_log, storage, retval>>

\* ------------------------------------------------------------------------
\* Assigning the input arguments
\* ------------------------------------------------------------------------

\* The first slot of the keyword region whose keyword is the given one, or
\* -1: the loop of assign_keyword_argument.
RECURSIVE FindKeywordSlot(_, _, _, _)
FindKeywordSlot(values, keyword, i, nval) ==
  IF i >= nval THEN 0 - 1
  ELSE IF keyword = values[i].keyword THEN i
  ELSE FindKeywordSlot(values, keyword, i + 1, nval)

\* Variant: the test of an earlier use of the keyword is in force.
assign_keyword_argument_dup(values, arg, npos, nval) ==
  LET k == cp_keyword(arg)
      i == FindKeywordSlot(values, k.keyword, npos, nval)
  IN IF ~k.ok THEN [result |-> kwNoKeyword, values |-> values]
     ELSE IF k.rest = EmptyString THEN [result |-> kwNoKeyword, values |-> values]
     ELSE IF i >= 0
       THEN IF values[i].v_i # 0
              THEN [result |-> kwDupKeyword, values |-> values]
              ELSE [result |-> kwSuccess,
                    values |-> [values EXCEPT ![i].v_i = 1, ![i].v_string = k.rest]]
     ELSE [result |-> kwUnkKeyword, values |-> values]

\* assign_keyword_argument: the result code and the scratch array after it.
\* The test of an earlier use of the keyword is commented out in the code.
assign_keyword_argument(values, arg, npos, nval) ==
  LET k == cp_keyword(arg)
      i == FindKeywordSlot(values, k.keyword, npos, nval)
  IN IF ~k.ok THEN [result |-> kwNoKeyword, values |-> values]
     ELSE IF k.rest = EmptyString THEN [result |-> kwNoKeyword, values |-> values]
     ELSE IF i >= 0
       THEN [result |-> kwSuccess,
             values |-> [values EXCEPT ![i].v_i = 1, ![i].v_string = k.rest]]
     ELSE [result |-> kwUnkKeyword, values |-> values]

\* The record kept of an argument handed to assign_keyword_argument: the
\* keyword slot it was bound to, or none.
KeywordFate(values, arg, result, npos, nval) ==
  IF result = kwSuccess
    THEN [how |-> "keyword", slot |-> FindKeywordSlot(values, cp_keyword(arg).keyword, npos, nval)]
    ELSE [how |-> "none", slot |-> 0 - 1]

\* argname of the entry point.
ArgName(e) == IF e = "cp_va_space_parse" THEN "word" ELSE "argument"

\* Variant: the item replaces the accumulated text.
add_keyword_error_last(sa, err, arg, argname, argno) ==
  IF err >= 0 THEN sa
  ELSE IF err = kwNoKeyword
    THEN <<[err |-> err, keyword |-> EmptyString, argname |-> argname, argno |-> argno + 1]>>
  ELSE <<[err |-> err, keyword |-> cp_keyword(arg).keyword, argname |-> "", argno |-> 0]>>

\* add_keyword_error: one item appended to the accumulated text.
add_keyword_error(sa, err, arg, argname, argno) ==
  IF err >= 0 THEN sa
  ELSE IF err = kwNoKeyword
    THEN Append(sa, [err |-> err, keyword |-> EmptyString, argname |-> argname, argno |-> argno + 1])
  ELSE Append(sa, [err |-> err, keyword |-> cp_keyword(arg).keyword, argname |-> "", argno |-> 0])

\* The arguments an entry point can hand over.
ArgChoices ==
  IF entry = "cp_va_space_parse" THEN SpaceTokens ELSE Tokens

\* cp_va_parse_keyword hands over exactly one argument.
MoreArgs ==
  Len(args) < (IF entry = "cp_va_parse_keyword" THEN 1 ELSE MaxArgs)

\* The assignment loop has consumed every input argument.
NoMoreArgs ==
  entry = "cp_va_parse_keyword" => Len(args) = 1

\* Variant: ignore_rest is not consulted.
PastPositionalErrorsStrict(sa, result, ign, arg, argname, argno) ==
  IF result = kwDupKeyword THEN add_keyword_error(sa, result, arg, argname, argno)
  ELSE IF result = kwSuccess THEN sa
  ELSE IF result = kwNoKeyword THEN sa
  ELSE add_keyword_error(sa, result, arg, argname, argno)

\* The accumulated keyword errors after an argument met with all positional
\* slots filled.
PastPositionalErrors(sa, result, ign, arg, argname, argno) ==
  IF result = kwDupKeyword THEN add_keyword_error(sa, result, arg, argname, argno)
  ELSE IF result = kwSuccess \/ ign THEN sa
  ELSE IF result = kwNoKeyword THEN sa
  ELSE add_keyword_error(sa, result, arg, argname, argno)

\* One iteration of the assignment loop with all positional slots filled.
AssignPastPositional ==
  /\ pc = "assign"
  /\ MoreArgs
  /\ npositional_supplied >= npositional
  /\ \E arg \in ArgChoices :
       LET r == assign_keyword_argument(cp_values, arg, npositional, nvalues)
       IN /\ args' = Append(args, arg)
          /\ arg_fate' = Append(arg_fate, KeywordFate(cp_values, arg, r.result, npositional, nvalues))
          /\ cp_values' = r.values
          /\ keyword_error_sa' =
               PastPositionalErrors(keyword_error_sa, r.result, ignore_rest, arg,
                                    ArgName(entry), Len(args))
          /\ npositional_supplied' =
               IF ~(r.result = kwSuccess \/ ignore_rest) /\ r.result = kwNoKeyword
                 THEN npositional_supplied + 1
                 ELSE npositional_supplied
  /\ UNCHANGED <<registry_history, harness, argtype_hash, cp_values_ptr, pc, entry, keywords_only,
                 nvalues, nrequired, npositional, mixed_keywords,
                 ignore_rest, nerrors_in, errh, parse_log, store_log,
                 storage, retval>>

\* One iteration in which a mixed-in keyword takes the argument.
AssignMixedKeyword ==
  /\ pc = "assign"
  /\ MoreArgs
  /\ npositional_supplied < npositional
  /\ mixed_keywords
  /\ \E arg \in ArgChoices :
       LET r == assign_keyword_argument(cp_values, arg, npositional, nvalues)
       IN /\ r.result >= 0 \/ r.result = kwDupKeyword
          /\ args' = Append(args, arg)
          /\ arg_fate' = Append(arg_fate, KeywordFate(cp_values, arg, r.result, npositional, nvalues))
          /\ cp_values' = r.values
          /\ keyword_error_sa' =
               add_keyword_error(keyword_error_sa, r.result, arg, ArgName(entry), Len(args))
  /\ UNCHANGED <<registry_history, harness, argtype_hash, cp_values_ptr, pc, entry, keywords_only,
                 nvalues, nrequired, npositional, mixed_keywords,
                 ignore_rest, nerrors_in, errh, npositional_supplied,
                 parse_log, store_log, storage, retval>>

\* Variant: the outcome of the keyword attempt is not consulted.
TakesPositionalAlways(arg) == TRUE

\* The argument is left to the next positional slot.
TakesPositional(arg) ==
  \/ ~mixed_keywords
  \/ LET r == assign_keyword_argument(cp_values, arg, npositional, nvalues)
     IN ~(r.result >= 0 \/ r.result = kwDupKeyword)

\* One iteration that assigns the argument to the next positional slot.
AssignPositional ==
  /\ pc = "assign"
  /\ MoreArgs
  /\ npositional_supplied < npositional
  /\ \E arg \in ArgChoices :
       /\ TakesPositional(arg)
       /\ args' = Append(args, arg)
       /\ arg_fate' = Append(arg_fate, [how |-> "positional", slot |-> npositional_supplied])
       /\ cp_values' = [cp_values EXCEPT ![npositional_supplied].v_string = arg]
  /\ npositional_supplied' = npositional_supplied + 1
  /\ UNCHANGED <<registry_history, harness, argtype_hash, cp_values_ptr, pc, entry, keywords_only,
                 nvalues, nrequired, npositional, mixed_keywords,
                 ignore_rest, nerrors_in, errh, keyword_error_sa,
                 parse_log, store_log, storage, retval>>

\* ------------------------------------------------------------------------
\* Keyword and arity checks
\* ------------------------------------------------------------------------

HasKeywordErrors == keyword_error_sa # << >> /\ ~keywords_only

\* Variant: only too many arguments are noticed.
WrongArityTooManyOnly(supplied, nreq, npos) == supplied > npos

WrongArity(supplied, nreq, npos) == supplied < nreq \/ supplied > npos

\* The declared keyword names, in slot order.
ValidKeywords == [i \in 1 .. (nvalues - npositional) |-> cp_values[npositional + i - 1].keyword]

\* "bad keyword(s) ... (valid keywords are ...)": one message, return -1.
ReportKeywordErrors ==
  /\ pc = "assign"
  /\ NoMoreArgs
  /\ HasKeywordErrors
  /\ errh' = ErrhError(errh, "bad keyword(s)", <<keyword_error_sa, ValidKeywords>>)
  /\ retval' = 0 - 1
  /\ pc' = "done"
  /\ UNCHANGED <<registry_history, harness, argtype_hash, cp_values_ptr, cp_values, entry,
                 keywords_only, nvalues, nrequired, npositional,
                 mixed_keywords, ignore_rest, nerrors_in, args, arg_fate,
                 npositional_supplied, keyword_error_sa, parse_log,
                 store_log, storage>>

\* Variant: the message is reported but the return is missing, so the call
\* goes on to the parse phase.
ReportArityNoReturn ==
  /\ pc = "assign"
  /\ NoMoreArgs
  /\ ~HasKeywordErrors
  /\ WrongArity(npositional_supplied, nrequired, npositional)
  /\ errh' = ErrhError(errh,
                       IF npositional_supplied > npositional THEN "too many" ELSE "too few",
                       <<ArgName(entry)>>)
  /\ pc' = "parse"
  /\ UNCHANGED <<registry_history, harness, argtype_hash, cp_values_ptr, cp_values, entry,
                 keywords_only, nvalues, nrequired, npositional,
                 mixed_keywords, ignore_rest, nerrors_in, args, arg_fate,
                 npositional_supplied, keyword_error_sa, parse_log,
                 store_log, storage, retval>>

\* "too many/too few ...; expected ...": one message, return -1.
ReportArity ==
  /\ pc = "assign"
  /\ NoMoreArgs
  /\ ~HasKeywordErrors
  /\ WrongArity(npositional_supplied, nrequired, npositional)
  /\ errh' = ErrhError(errh,
                       IF npositional_supplied > npositional THEN "too many" ELSE "too few",
                       <<ArgName(entry)>>)
  /\ retval' = 0 - 1
  /\ pc' = "done"
  /\ UNCHANGED <<registry_history, harness, argtype_hash, cp_values_ptr, cp_values, entry,
                 keywords_only, nvalues, nrequired, npositional,
                 mixed_keywords, ignore_rest, nerrors_in, args, arg_fate,
                 npositional_supplied, keyword_error_sa, parse_log,
                 store_log, storage>>

\* A slot keeps its argtype iff it is a supplied positional slot or a
\* keyword slot whose v.i is not zero.
SlotUsed(values, i, supplied, npos) ==
  IF i < npos THEN i < supplied ELSE values[i].v_i # 0

\* "clear 'argtype' on unused arguments"
ClearUnused ==
  /\ pc = "assign"
  /\ NoMoreArgs
  /\ ~HasKeywordErrors
  /\ ~WrongArity(npositional_supplied, nrequired, npositional)
  /\ cp_values' = [i \in DOMAIN cp_values |->
                     IF i < nvalues /\ ~SlotUsed(cp_values, i, npositional_supplied, npositional)
                       THEN [cp_values[i] EXCEPT !.argtype = NULL]
                       ELSE cp_values[i]]
  /\ pc' = "parse"
  /\ UNCHANGED <<registry_history, harness, argtype_hash, cp_values_ptr, entry, keywords_only, nvalues,
                 nrequired, npositional, mixed_keywords, ignore_rest,
                 nerrors_in, errh, args, arg_fate, npositional_supplied,
                 keyword_error_sa, parse_log, store_log, storage, retval>>

\* ------------------------------------------------------------------------
\* Parse phase
\* ------------------------------------------------------------------------

\* The bool member v.b of the union v: the low byte of v.i (little-endian).
v_b(v) == (v.v_i % 256) # 0

WriteLowByte(vi, b) == (vi \div 256) * 256 + (IF b THEN 1 ELSE 0)

\* The label passed to the parse operation: "<argname> N" for positional
\* slot N-1, "keyword K" for a keyword slot.
ArgLabel(values, i, npos, argname) ==
  IF i < npos THEN <<argname, i + 1>> ELSE <<"keyword", values[i].keyword>>

\* default_parsefunc on slot i, for the types the declarations draw: the
\* scratch value and the ErrorHandler after it.  cpiIgnore has no case in
\* the switch.
default_parsefunc(tag, v, arg, h, label) ==
  IF tag = "cpiBool"
    THEN IF ~cp_bool(arg).ok
           THEN [v |-> v, errh |-> ErrhError(h, "takes bool", label)]
           ELSE [v |-> [v EXCEPT !.v_i = WriteLowByte(v.v_i, cp_bool(arg).value)], errh |-> h]
    ELSE [v |-> v, errh |-> h]

\* The two parse loops (positional slots, then keyword slots) from slot i
\* on: every slot whose argtype is set is parsed, whatever came before.
RECURSIVE ParseLoop(_, _, _, _, _, _, _)
ParseLoop(hash, values, h, log, i, nval, lab) ==
  IF i >= nval THEN [values |-> values, errh |-> h, log |-> log]
  ELSE IF values[i].argtype = NULL
    THEN ParseLoop(hash, values, h, log, i + 1, nval, lab)
  ELSE LET r == default_parsefunc(internal(hash, values[i].argtype), values[i],
                                  values[i].v_string, h, lab[i])
       IN ParseLoop(hash, [values EXCEPT ![i] = r.v], r.errh, Append(log, i),
                    i + 1, nval, lab)

ParsePhase ==
  /\ pc = "parse"
  /\ LET lab == [i \in 0 .. (nvalues - 1) |->
                   ArgLabel(cp_values, i, npositional, ArgName(entry))]
         r == ParseLoop(argtype_hash, cp_values, errh, << >>, 0, nvalues, lab)
     IN /\ cp_values' = r.values
        /\ errh' = r.errh
        /\ parse_log' = r.log
  /\ pc' = "parsed"
  /\ UNCHANGED <<registry_history, harness, argtype_hash, cp_values_ptr, entry, keywords_only, nvalues,
                 nrequired, npositional, mixed_keywords, ignore_rest,
                 nerrors_in, args, arg_fate, npositional_supplied, keyword_error_sa,
                 store_log, storage, retval>>

\* ------------------------------------------------------------------------
\* Commit phase
\* ------------------------------------------------------------------------

\* Variant: the comparison is turned around.
ParseFailedReversed(h, nin) == nerrors(h) < nin

\* Variant: the count is compared with zero, not with the count at entry.
ParseFailedAgainstZero(h, nin) == nerrors(h) # 0

\* "check for failure"
ParseFailed(h, nin) == nerrors(h) # nin

ReturnParseFailure ==
  /\ pc = "parsed"
  /\ ParseFailed(errh, nerrors_in)
  /\ retval' = 0 - 1
  /\ pc' = "done"
  /\ UNCHANGED <<registry_history, harness, argtype_hash, cp_values_ptr, cp_values, entry,
                 keywords_only, nvalues, nrequired, npositional,
                 mixed_keywords, ignore_rest, nerrors_in, errh, args, arg_fate,
                 npositional_supplied, keyword_error_sa, parse_log,
                 store_log, storage>>

\* default_storefunc on slot i: caller storage after it.  Only cpiBool of
\* the types drawn writes; cpiIgnore takes the default case.
default_storefunc(tag, v, st, i) ==
  IF tag = "cpiBool" THEN [st EXCEPT ![i] = v_b(v)] ELSE st

\* The store loop from slot i on.
RECURSIVE StoreLoop(_, _, _, _, _, _)
StoreLoop(hash, values, st, log, i, nval) ==
  IF i >= nval THEN [storage |-> st, log |-> log]
  ELSE IF values[i].argtype = NULL
    THEN StoreLoop(hash, values, st, log, i + 1, nval)
  ELSE StoreLoop(hash, values,
                 default_storefunc(internal(hash, values[i].argtype), values[i], st, i),
                 Append(log, i), i + 1, nval)

\* "if success, actually set the values": returns nset.
Commit ==
  /\ pc = "parsed"
  /\ ~ParseFailed(errh, nerrors_in)
  /\ LET r == StoreLoop(argtype_hash, cp_values, storage, << >>, 0, nvalues)
     IN /\ storage' = r.storage
        /\ store_log' = r.log
        /\ retval' = Len(r.log)
  /\ pc' = "done"
  /\ UNCHANGED <<registry_history, harness, argtype_hash, cp_values_ptr, cp_values, entry,
                 keywords_only, nvalues, nrequired, npositional,
                 mixed_keywords, ignore_rest, nerrors_in, errh, args, arg_fate,
                 npositional_supplied, keyword_error_sa, parse_log>>

\* ------------------------------------------------------------------------
\* Return to the caller
\* ------------------------------------------------------------------------

\* The call has returned and the locals are gone.  The scratch array is not
\* carried to the next call: a call assigns argtype, keyword and v_string
\* of a slot before it reads them, and what it finds in v.i is drawn in
\* ReadIgnore.
Return ==
  /\ pc = "done"
  /\ pc' = "idle"
  /\ cp_values' = NoSlots
  /\ entry' = "none"
  /\ keywords_only' = FALSE
  /\ nvalues' = 0
  /\ nrequired' = 0 - 1
  /\ npositional' = 0 - 1
  /\ mixed_keywords' = FALSE
  /\ ignore_rest' = FALSE
  /\ nerrors_in' = 0
  /\ errh' = << >>
  /\ args' = << >>
  /\ arg_fate' = << >>
  /\ npositional_supplied' = 0
  /\ keyword_error_sa' = << >>
  /\ parse_log' = << >>
  /\ store_log' = << >>
  /\ storage' = NoStorage
  /\ retval' = "none"
  /\ UNCHANGED <<registry_history, harness, argtype_hash, cp_values_ptr>>

Next ==
  \/ cp_va_static_initialize
  \/ cp_va_static_cleanup
  \/ CallUninitialized
  \/ Call
  \/ UseAfterFreeFault
  \/ TooManyArguments
  \/ ReadTerminator
  \/ ReadUnknownType
  \/ ReadOptional
  \/ ReadKeywords
  \/ ReadIgnore
  \/ ReadIgnoreRest
  \/ ReadArgSpec
  \/ AssignPastPositional
  \/ AssignMixedKeyword
  \/ AssignPositional
  \/ ReportKeywordErrors
  \/ ReportArity
  \/ ClearUnused
  \/ ParsePhase
  \/ ReturnParseFailure
  \/ Commit
  \/ Return

Spec == Init /\ [][Next]_vars

\* The registry on its own: initialization, registrations and
\* unregistrations in any order.
RegistryNext ==
  \/ cp_va_static_initialize
  \/ cp_register_argtype
  \/ cp_unregister_argtype

RegistrySpec == Init /\ [][RegistryNext]_vars

\* ------------------------------------------------------------------------
\* Library functions applied on their own
\* ------------------------------------------------------------------------

\* The program's own state, which such an application leaves alone.
program ==
  <<registry_history, argtype_hash, cp_values_ptr, cp_values, locals>>

\* All strings of at most n characters of the set chars.
Strings(chars, n) == UNION {[1 .. k -> chars] : k \in 0 .. n}

\* The characters of the configuration texts: a letter, the comma,
\* whitespace, and the characters of comments, quotes and \<...> blocks.
ConfChars == {"a", ",", " ", "\n", "/", "*", "\"", "'", "\\", "<", ">"}

\* cp_argvec applied to a configuration text.
ArgvecInit ==
  /\ ProgramInit
  /\ call_fn = "cp_argvec"
  /\ call_in \in Strings(ConfChars, MaxConfLen)
  /\ call_out = << >>

CallArgvec ==
  /\ call_fn = "cp_argvec"
  /\ call_out = << >>
  /\ call_out' = <<cp_argvec(call_in)>>
  /\ UNCHANGED <<call_fn, call_in, program>>

ArgvecSpec == ArgvecInit /\ [][CallArgvec]_vars

\* cp_uncomment applied to a configuration text.
UncommentInit ==
  /\ ProgramInit
  /\ call_fn = "cp_uncomment"
  /\ call_in \in Strings(ConfChars, MaxConfLen)
  /\ call_out = << >>

CallUncomment ==
  /\ call_fn = "cp_uncomment"
  /\ call_out = << >>
  /\ call_out' = <<cp_uncomment(call_in)>>
  /\ UNCHANGED <<call_fn, call_in, program>>

UncommentSpec == UncommentInit /\ [][CallUncomment]_vars

\* The characters of the texts given to cp_unquote: those of words, the
\* quotes and the space.
UnquoteChars == {"a", "1", "x", "/", "*", "\\", "<", ">", "\"", "'", " "}

\* cp_unquote applied to a text.
UnquoteInit ==
  /\ ProgramInit
  /\ call_fn = "cp_unquote"
  /\ call_in \in Strings(UnquoteChars, MaxConfLen)
  /\ call_out = << >>

CallUnquote ==
  /\ call_fn = "cp_unquote"
  /\ call_out = << >>
  /\ call_out' = <<cp_unquote(call_in)>>
  /\ UNCHANGED <<call_fn, call_in, program>>

UnquoteSpec == UnquoteInit /\ [][CallUnquote]_vars

\* The longest byte string given to cp_quote.
MaxQuoteLen == 3

\* The bytes of the strings given to cp_quote: the characters cp_quote and
\* cp_unquote treat specially, a letter, a digit, control bytes and bytes
\* from 127 up.
QuoteChars ==
  {"\\", "\"", "'", "$", "<", "/", " ", "a", "1", "\n", "\t", "\r"}
    \cup {ToChar(b) : b \in {0, 31, 127, 255}}

\* cp_quote applied to a byte string, cp_unquote applied to the result.
QuoteInit ==
  /\ ProgramInit
  /\ call_fn = "cp_quote"
  /\ call_in \in [str : Strings(QuoteChars, MaxQuoteLen), allow_newlines : BOOLEAN]
  /\ call_out = << >>

CallQuote ==
  /\ call_fn = "cp_quote"
  /\ call_out = << >>
  /\ call_out' = <<cp_quote(call_in.str, call_in.allow_newlines)>>
  /\ UNCHANGED <<call_fn, call_in, program>>

CallUnquoteBack ==
  /\ call_fn = "cp_quote"
  /\ Len(call_out) = 1
  /\ call_out' = Append(call_out, cp_unquote(call_out[1]))
  /\ UNCHANGED <<call_fn, call_in, program>>

QuoteNext == CallQuote \/ CallUnquoteBack

QuoteSpec == QuoteInit /\ [][QuoteNext]_vars

\* The texts given to the number parsers: a sign or none, the prefix of
\* hexadecimal numbers or none, and at most MaxDigits digits.
NumDigits == {"0", "8"}

NumberTexts ==
  {sign \o prefix \o digits :
     sign \in {<< >>, <<"+">>, <<"-">>},
     prefix \in {<< >>, <<"0", "x">>},
     digits \in Strings(NumDigits, MaxDigits)}

\* cp_unsigned applied to a text, in a base, with cp_errno as an earlier
\* call left it.
UnsignedInit ==
  /\ ProgramInit
  /\ call_fn = "cp_unsigned"
  /\ call_in \in [str : NumberTexts, base : {0, 10, 16},
                  cp_errno : {CPE_OK, CPE_OVERFLOW}]
  /\ call_out = << >>

CallUnsigned ==
  /\ call_fn = "cp_unsigned"
  /\ call_out = << >>
  /\ call_out' = <<cp_unsigned(call_in.str, call_in.base, U32(0, 0), call_in.cp_errno)>>
  /\ UNCHANGED <<call_fn, call_in, program>>

UnsignedSpec == UnsignedInit /\ [][CallUnsigned]_vars

\* cp_integer applied to a text, in a base (-1 is the base the two-argument
\* cp_integer passes), with cp_errno as an earlier call left it.
IntegerInit ==
  /\ ProgramInit
  /\ call_fn = "cp_integer"
  /\ call_in \in [str : NumberTexts, base : {-1, 10, 16},
                  cp_errno : {CPE_OK, CPE_OVERFLOW}]
  /\ call_out = << >>

CallInteger ==
  /\ call_fn = "cp_integer"
  /\ call_out = << >>
  /\ call_out' = <<cp_integer(call_in.str, call_in.base, U32(0, 0), call_in.cp_errno)>>
  /\ UNCHANGED <<call_fn, call_in, program>>

IntegerSpec == IntegerInit /\ [][CallInteger]_vars

\* The limbs the numbers given to the unparsers are made of.
LimbSamples == {0, 1, 7, 9, 10, 15, 16, 255, 4095, 4096, 32767, 32768, 65534, 65535}

\* cp_unparse_ulonglong applied to an unsigned, and cp_unsigned to the text.
RoundTripInit ==
  /\ ProgramInit
  /\ call_fn = "cp_unparse_ulonglong"
  /\ call_in \in [n : [hi : LimbSamples, lo : LimbSamples], base : {8, 10, 16},
                  uppercase : BOOLEAN]
  /\ call_out = << >>

CallUnparse ==
  /\ call_fn = "cp_unparse_ulonglong"
  /\ call_out = << >>
  /\ call_out' = <<cp_unparse_ulonglong(ULL(call_in.n), call_in.base, call_in.uppercase)>>
  /\ UNCHANGED <<call_fn, call_in, program>>

CallUnsignedBack ==
  /\ call_fn = "cp_unparse_ulonglong"
  /\ Len(call_out) = 1
  /\ call_out' = Append(call_out,
                        cp_unsigned(call_out[1], call_in.base, U32(0, 0), CPE_OVERFLOW))
  /\ UNCHANGED <<call_fn, call_in, program>>

RoundTripNext == CallUnparse \/ CallUnsignedBack

RoundTripSpec == RoundTripInit /\ [][RoundTripNext]_vars

\* The limbs the numbers unparsed step by step are made of.
DecimalLimbs == {0, 10, 4096, 65535}

Zero64 == <<0, 0, 0, 0>>

\* cp_unparse_ulonglong(q, 10, false) followed statement by statement:
\* call_out holds the position in the code and the locals q, k, m and the
\* digits written so far.
DecimalInit ==
  /\ ProgramInit
  /\ call_fn = "cp_unparse_ulonglong_steps"
  /\ call_in \in [1 .. 4 -> DecimalLimbs]
  /\ call_out = <<[pc |-> "for", q |-> call_in, k |-> Zero64, m |-> Zero64, buf |-> << >>]>>

Stepping(at) == call_fn = "cp_unparse_ulonglong_steps" /\ call_out[1].pc = at

\* for (trav = lastbuf; q > 0; trav--): the test, and k = Approx[q/10].
ForTest ==
  /\ Stepping("for")
  /\ call_out' = IF IsZero(call_out[1].q)
                   THEN <<[call_out[1] EXCEPT !.pc = "return"]>>
                   ELSE <<[call_out[1] EXCEPT !.pc = "while",
                                              !.k = ApproxTenth(call_out[1].q)]>>
  /\ UNCHANGED <<call_fn, call_in, program>>

\* One turn of while (1): d, m, the break or the correction of k.
WhileTurn ==
  /\ Stepping("while")
  /\ LET m == Remainder(call_out[1].q, call_out[1].k)
     IN call_out' = IF Below(m, 10)
                      THEN <<[call_out[1] EXCEPT !.pc = "digit", !.m = m]>>
                      ELSE <<[call_out[1] EXCEPT !.m = m,
                                                 !.k = Correct(call_out[1].q, call_out[1].k)]>>
  /\ UNCHANGED <<call_fn, call_in, program>>

\* *trav = '0' + (unsigned)m; q = k.
WriteDigit ==
  /\ Stepping("digit")
  /\ call_out' = <<[call_out[1] EXCEPT
                      !.pc = "for",
                      !.buf = <<DigitChars(FALSE)[call_out[1].m[1] + 1]>> \o call_out[1].buf,
                      !.q = call_out[1].k]>>
  /\ UNCHANGED <<call_fn, call_in, program>>

\* if (trav == lastbuf) *trav-- = '0'; return.
ReturnDigits ==
  /\ Stepping("return")
  /\ call_out' = <<[call_out[1] EXCEPT
                      !.pc = "done",
                      !.buf = IF call_out[1].buf = << >> THEN <<"0">> ELSE call_out[1].buf]>>
  /\ UNCHANGED <<call_fn, call_in, program>>

DecimalNext == ForTest \/ WhileTurn \/ WriteDigit \/ ReturnDigits

\* The function runs on its own thread of control: a statement that can be
\* executed is executed.
DecimalSpec == DecimalInit /\ [][DecimalNext]_vars /\ WF_vars(DecimalNext)

\* cp_unparse_real2 applied to a number with frac_bits fractional bits, and
\* cp_unsigned_real2 to the text.
Real2Init ==
  /\ ProgramInit
  /\ call_fn = "cp_unparse_real2"
  /\ call_in \in [x : 0 .. MaxReal, frac_bits : 1 .. MaxFracBits]
  /\ call_out = << >>

CallUnparseReal2 ==
  /\ call_fn = "cp_unparse_real2"
  /\ call_out = << >>
  /\ call_out' = <<cp_unparse_real2(call_in.x, call_in.frac_bits)>>
  /\ UNCHANGED <<call_fn, call_in, program>>

CallUnsignedReal2 ==
  /\ call_fn = "cp_unparse_real2"
  /\ Len(call_out) = 1
  /\ \E too_large \in BOOLEAN :
       /\ call_in.frac_bits # 1 => ~too_large
       /\ call_out' = Append(call_out,
                             cp_unsigned_real2(call_out[1], call_in.frac_bits, too_large))
  /\ UNCHANGED <<call_fn, call_in, program>>

Real2Next == CallUnparseReal2 \/ CallUnsignedReal2

Real2Spec == Real2Init /\ [][Real2Next]_vars

\* The texts of addresses given to the parsers: groups joined by sep,
\* with a :: before group number coloncolon + 1, or behind the last group,
\* or nowhere.
Ip6Groups == {<<"0">>, <<"f", "f", "f", "f">>, <<"f", "f", "0", "0">>, <<"8", "0", "0", "0">>}

Ip4Parts == {<<"0">>, <<"2", "5", "5">>, <<"2", "5", "6">>}

EtherParts == {<<"0">>, <<"a", "1">>}

RECURSIVE Join(_, _, _)
Join(groups, sep, coloncolon) ==
  IF groups = << >> THEN IF coloncolon = 0 THEN <<":", ":">> ELSE << >>
  ELSE (IF coloncolon = 0 THEN <<":", ":">> ELSE << >>)
         \o groups[1]
         \o (IF Len(groups) > 1 /\ coloncolon # 1 THEN <<sep>> ELSE << >>)
         \o Join(Tail(groups), sep, coloncolon - 1)

Ip6Texts(n) ==
  {Join(groups, ":", coloncolon) :
     groups \in UNION {[1 .. k -> Ip6Groups] : k \in 0 .. n},
     coloncolon \in -1 .. n}

\* The text of an IPv6 address of k groups, each the group 12ab or each
\* 10000, a dotted quad as a last group or none, a :: as for Join, and a
\* second :: with another group behind it all or none.
Ip6LongText(k, big, quad, coloncolon, twice) ==
  Join([i \in 1 .. k |-> IF big THEN <<"1", "0", "0", "0", "0">>
                                ELSE <<"1", "2", "a", "b">>]
         \o (IF quad THEN << <<"1", ".", "2", ".", "3", ".", "4">> >> ELSE << >>),
       ":", coloncolon)
    \o (IF twice THEN <<":", ":", "2">> ELSE << >>)

Ip4Texts ==
  {Join(parts, ".", -1) : parts \in UNION {[1 .. k -> Ip4Parts] : k \in 3 .. 5}}

EtherTexts ==
  {Join(parts, ":", -1) : parts \in UNION {[1 .. k -> EtherParts] : k \in 5 .. 7}}

\* The texts of masks that are no addresses.
BitTexts ==
  {<< >>, <<"0">>, <<"8">>, <<"3", "2">>, <<"3", "3">>, <<"6", "4">>,
   <<"1", "2", "8">>, <<"1", "2", "9">>, <<"-", "1">>, <<"x">>}

PrefixTexts(addresses, masks) ==
  addresses \cup {a \o <<"/">> \o m : a \in addresses, m \in masks \cup BitTexts}

Ip4Some == {<<"1", "0", ".", "0", ".", "0", ".", "1">>, <<"1", "0", ".", "0", ".", "0">>, <<"x">>}

Ip6Some == {<<":", ":", "1">>, <<"1", ":", "2">>, <<"x">>}

NameSets == {{}, {"query_ip"}, {"query_ip6"}, QueryKinds}

\* One of the address parsers applied to a text, with a lookup that finds
\* the names of some kinds.
AddressInit ==
  /\ ProgramInit
  /\ \/ /\ call_fn = "cp_ip_address"
        /\ call_in \in [str : Ip4Texts \cup Ip4Some, allow_bare_address : {FALSE},
                        names : NameSets]
     \/ /\ call_fn = "cp_ip_prefix"
        /\ call_in \in [str : PrefixTexts(Ip4Some, Ip4Texts),
                        allow_bare_address : BOOLEAN, names : NameSets]
     \/ /\ call_fn = "cp_ip6_address"
        /\ \E k \in 0 .. MaxGroups, coloncolon \in -1 .. MaxGroups,
              big \in BOOLEAN, quad \in BOOLEAN, twice \in BOOLEAN, names \in NameSets :
             call_in = [str |-> Ip6LongText(k, big, quad, coloncolon, twice),
                        allow_bare_address |-> FALSE, names |-> names,
                        k |-> k, big |-> big, quad |-> quad,
                        coloncolon |-> coloncolon, twice |-> twice]
     \/ /\ call_fn = "cp_ip6_prefix"
        /\ call_in \in [str : PrefixTexts(Ip6Some, Ip6Texts(MaxMaskGroups)),
                        allow_bare_address : BOOLEAN, names : NameSets]
     \/ /\ call_fn = "cp_ethernet_address"
        /\ call_in \in [str : EtherTexts, allow_bare_address : {FALSE},
                        names : NameSets]
  /\ call_out = << >>

CallIpAddress ==
  /\ call_fn = "cp_ip_address"
  /\ call_out = << >>
  /\ call_out' = <<cp_ip_address(call_in.str, call_in.names, << >>)>>
  /\ UNCHANGED <<call_fn, call_in, program>>

CallIpPrefix ==
  /\ call_fn = "cp_ip_prefix"
  /\ call_out = << >>
  /\ call_out' = <<cp_ip_prefix(call_in.str, call_in.allow_bare_address, call_in.names)>>
  /\ UNCHANGED <<call_fn, call_in, program>>

CallIp6Address ==
  /\ call_fn = "cp_ip6_address"
  /\ call_out = << >>
  /\ call_out' = <<cp_ip6_address(call_in.str, call_in.names, << >>)>>
  /\ UNCHANGED <<call_fn, call_in, program>>

CallIp6Prefix ==
  /\ call_fn = "cp_ip6_prefix"
  /\ call_out = << >>
  /\ call_out' = <<cp_ip6_prefix(call_in.str, call_in.allow_bare_address, call_in.names)>>
  /\ UNCHANGED <<call_fn, call_in, program>>

CallEthernetAddress ==
  /\ call_fn = "cp_ethernet_address"
  /\ call_out = << >>
  /\ call_out' = <<cp_ethernet_address(call_in.str, call_in.names)>>
  /\ UNCHANGED <<call_fn, call_in, program>>

AddressNext ==
  \/ CallIpAddress
  \/ CallIpPrefix
  \/ CallIp6Address
  \/ CallIp6Prefix
  \/ CallEthernetAddress

AddressSpec == AddressInit /\ [][AddressNext]_vars

\* ------------------------------------------------------------------------
\* Observations used by the properties
\* ------------------------------------------------------------------------

\* Positions in the ErrorHandler of the messages of the given kinds.
ErrorsOfKind(kinds) == {i \in 1 .. Len(errh) : errh[i].kind \in kinds}

\* Messages delivered during the call (the caller's earlier ones excluded).
DeliveredErrors == {i \in 1 .. Len(errh) : errh[i].kind # "prior"}

ParseErrors == ErrorsOfKind({"takes bool"})

ArityErrors == ErrorsOfKind({"too many", "too few"})

KeywordErrors == ErrorsOfKind({"bad keyword(s)"})

UnknownTypeErrors == ErrorsOfKind({"unknown argument type"})

\* ------------------------------------------------------------------------
\* Token shapes and slot sets used by the properties
\* ------------------------------------------------------------------------

IdentChar(c) == c \in Digits \cup Letters \cup {"_", ".", ":"}

\* tok is the identifier kw, whitespace, and a rest that is not empty.
HasKeywordForm(tok, kw) ==
  /\ kw # << >>
  /\ Len(tok) > Len(kw) + 1
  /\ SubSeq(tok, 1, Len(kw)) = kw
  /\ \A i \in 1 .. Len(kw) : IdentChar(kw[i])
  /\ isspace(tok[Len(kw) + 1])
  /\ \E j \in (Len(kw) + 2) .. Len(tok) : ~isspace(tok[j])

\* The rest of a token of that form: what follows the whitespace.
ValueOf(tok, kw) ==
  LET j == CHOOSE j \in (Len(kw) + 2) .. Len(tok) :
             /\ ~isspace(tok[j])
             /\ \A k \in (Len(kw) + 1) .. (j - 1) : isspace(tok[k])
  IN SubSeq(tok, j, Len(tok))

\* The identifiers tok could be carrying as a keyword (at most one).
IdentifiersOf(tok) ==
  {SubSeq(tok, 1, n) : n \in {m \in 1 .. Len(tok) : HasKeywordForm(tok, SubSeq(tok, 1, m))}}

\* The slots of the keyword region, once a keyword marker has been read.
KeywordRegion ==
  {i \in DOMAIN cp_values : npositional >= 0 /\ npositional <= i /\ i < nvalues}

SlotsDeclaring(kw) == {i \in KeywordRegion : cp_values[i].keyword = kw}

DeclaredKeywords == {cp_values[i].keyword : i \in KeywordRegion}

MinOf(S) == CHOOSE x \in S : \A y \in S : x <= y

MaxOf(S) == CHOOSE x \in S : \A y \in S : x >= y

\* The call is past the declaration and has not returned to idle.
SpecConsumed ==
  \/ pc \in {"assign", "parse", "parsed"}
  \/ /\ pc = "done"
     /\ ErrorsOfKind({"out of memory in cp_va_parse",
                      "too many arguments to cp_va_parsev!"}) = {}

\* The positions of the arguments that carried keyword kw as keyword
\* candidates.
KeywordArgs(kw) ==
  {i \in 1 .. Len(args) : HasKeywordForm(args[i], kw) /\ arg_fate[i].how # "positional"}

SuppliedTwice(kw) ==
  /\ SlotsDeclaring(kw) # {}
  /\ Cardinality(KeywordArgs(kw)) >= 2

\* The items of the accumulated keyword errors that flag a duplicate.
DupItems(sa) == {k \in 1 .. Len(sa) : sa[k].err = kwDupKeyword}

\* ------------------------------------------------------------------------
\* Properties
\* ------------------------------------------------------------------------

\* C1: atomic commit.  If the parse operation of some bound ArgSpec
\* reported an error, no store operation has been invoked, the caller's
\* storage is untouched, and the call returns -1.
C1_AtomicCommit ==
  ParseErrors # {} =>
    /\ store_log = << >>
    /\ storage = NoStorage
    /\ pc \in {"parsed", "done"}
    /\ pc = "done" => retval = 0 - 1

\* A call has returned after one parse operation failed and another one
\* succeeded.
C1_Witness ==
  /\ pc = "done"
  /\ ParseErrors # {}
  /\ Len(parse_log) > Cardinality(ParseErrors)
  /\ retval = 0 - 1

\* C4: no silent failure.  A call that returns -1 has delivered at least
\* one error to the ErrorHandler during the call; a call that returns a
\* count has delivered none.
C4_NoSilentFailure ==
  pc = "done" =>
    /\ retval = 0 - 1 => DeliveredErrors # {}
    /\ retval # 0 - 1 => retval >= 0 /\ DeliveredErrors = {}

\* A call whose ErrorHandler held an earlier message has been through the
\* parse phase and has returned a count.
C4_Witness ==
  /\ pc = "done"
  /\ retval >= 1
  /\ Len(errh) = 1
  /\ parse_log # << >>

\* C5: arity and keyword errors short-circuit the parse phase.  An arity
\* error is reported only when the number of filled positional slots is
\* outside [nrequired, npositional], and once an arity or a keyword error
\* has been reported no parse and no store operation is invoked: the call
\* has returned -1.
C5_ShortCircuit ==
  /\ ArityErrors # {} =>
       npositional_supplied < nrequired \/ npositional_supplied > npositional
  /\ ArityErrors \cup KeywordErrors # {} =>
       /\ parse_log = << >>
       /\ store_log = << >>
       /\ storage = NoStorage
       /\ pc = "done"
       /\ retval = 0 - 1

\* An arity error has been reported in a call that had assigned an argument
\* to a slot with a parse operation.
C5_Witness ==
  /\ pc = "done"
  /\ ArityErrors # {}
  /\ \E i \in 0 .. (nvalues - 1) :
       cp_values[i].argtype # NULL /\ cp_values[i].v_string # EmptyString

C3_Case ==
  /\ SpecConsumed
  /\ pc = "done"
  /\ nrequired = 2
  /\ npositional < nvalues
  /\ Len(args) = 1
  /\ IdentifiersOf(args[1]) # {}
  /\ IdentifiersOf(args[1]) \cap DeclaredKeywords = {}

\* C3 as stated: in that case the call fails with an unknown-keyword error
\* listing the valid keywords, and not with an arity error.
C3_UnknownKeywordNotArity ==
  C3_Case =>
    /\ retval = 0 - 1
    /\ \E e \in KeywordErrors : errh[e].detail[2] = ValidKeywords
    /\ ArityErrors = {}

\* C3: in that case the argument is assigned to the first positional slot,
\* and the call fails with the arity error "too few" and with no keyword
\* error; no parse operation is invoked.
C3_TooFewNotUnknownKeyword ==
  C3_Case =>
    /\ retval = 0 - 1
    /\ arg_fate[1] = [how |-> "positional", slot |-> 0]
    /\ cp_values[0].v_string = args[1]
    /\ KeywordErrors = {}
    /\ Cardinality(ArityErrors) = 1
    /\ \A e \in ArityErrors : errh[e].kind = "too few"
    /\ parse_log = << >>
    /\ store_log = << >>

\* Such a call has returned, in mixed-keyword mode and with a declared
\* keyword of another name.
C3_Witness ==
  /\ C3_Case
  /\ mixed_keywords
  /\ DeclaredKeywords # {}
  /\ retval = 0 - 1

\* C6 as stated: once an unknown type name has been reported, no parse and
\* no store operation is invoked, and the call returns -1.
C6_UnknownTypeFatal ==
  UnknownTypeErrors # {} =>
    /\ parse_log = << >>
    /\ store_log = << >>
    /\ pc = "done" => retval = 0 - 1

\* The thresholds are in order.
ThresholdsOrdered ==
  /\ 0 <= nrequired
  /\ nrequired <= npositional
  /\ npositional <= nvalues

\* Until the call returns, a threshold that is set keeps its value.
ThresholdsKept ==
  pc \in {"spec", "assign", "parse", "parsed"} =>
    /\ nrequired >= 0 => nrequired' = nrequired
    /\ npositional >= 0 => npositional' = npositional

\* C7: whatever entries the declaration holds, once it is consumed
\* 0 <= nrequired <= npositional <= nvalues; while it is read, the
\* thresholds already set are in that order; and nrequired and npositional
\* are each fixed by the first marker that sets them.
C7_Thresholds ==
  /\ [](SpecConsumed => ThresholdsOrdered)
  /\ [](pc = "spec" =>
          /\ nrequired >= 0 => nrequired <= nvalues
          /\ npositional >= 0 => ThresholdsOrdered)
  /\ [][ThresholdsKept]_vars

\* A declaration with a required, an optional and a keyword value has been
\* consumed, with a second keyword marker read after the first.
C7_Witness ==
  /\ pc = "assign"
  /\ 0 < nrequired
  /\ nrequired < npositional
  /\ npositional < nvalues
  /\ mixed_keywords

\* The slots that have been assigned an argument.
SuppliedSlots ==
  {arg_fate[i].slot : i \in {j \in 1 .. Len(arg_fate) : arg_fate[j].how # "none"}}

\* How many times the parse operation of slot s has been invoked.
ParseCount(s) == Cardinality({n \in 1 .. Len(parse_log) : parse_log[n] = s})

\* C8 as stated: after the parse phase, the parse operation has been
\* invoked exactly once for every slot that was assigned an argument and
\* never for any other slot, whatever errors were reported.
C8_ParseExactlySupplied ==
  pc = "parsed" =>
    \A s \in 0 .. (nvalues - 1) :
      ParseCount(s) = (IF s \in SuppliedSlots THEN 1 ELSE 0)

\* The slots of the keyword region that declare the keyword tok carries.
MatchingSlots(tok) == {i \in KeywordRegion : HasKeywordForm(tok, cp_values[i].keyword)}

\* The step takes one more argument.
TakesArg == pc = "assign" /\ Len(args') = Len(args) + 1

\* The slots other than s are as they were.
OthersKept(s) == \A i \in (DOMAIN cp_values) \ {s} : cp_values'[i] = cp_values[i]

\* C9: a step that takes an argument while fewer than npositional
\* positional slots are filled.  In mixed-keyword mode an argument of
\* keyword form whose identifier is declared is bound to the (first) slot
\* declaring it and fills no positional slot; every other argument, and in
\* unmixed mode every argument, is assigned to the next positional slot.
C9_Step ==
  (TakesArg /\ npositional_supplied < npositional) =>
    LET tok == args'[Len(args')]
    IN IF mixed_keywords /\ MatchingSlots(tok) # {}
         THEN LET s == MinOf(MatchingSlots(tok))
              IN /\ npositional_supplied' = npositional_supplied
                 /\ cp_values'[s].v_string = ValueOf(tok, cp_values[s].keyword)
                 /\ cp_values'[s].v_i # 0
                 /\ cp_values'[s].argtype = cp_values[s].argtype
                 /\ OthersKept(s)
         ELSE /\ npositional_supplied' = npositional_supplied + 1
              /\ cp_values'[npositional_supplied].v_string = tok
              /\ cp_values'[npositional_supplied].argtype = cp_values[npositional_supplied].argtype
              /\ OthersKept(npositional_supplied)

C9_MixedUnmixed == [][C9_Step]_vars

\* In mixed-keyword mode a keyword was bound before any positional slot was
\* filled, and the next argument filled the first positional slot.
C9_Witness ==
  /\ pc = "assign"
  /\ mixed_keywords
  /\ Len(arg_fate) = 2
  /\ arg_fate[1].how = "keyword"
  /\ arg_fate[2] = [how |-> "positional", slot |-> 0]

\* In unmixed mode an argument of the form of a declared keyword filled a
\* positional slot.
C9_WitnessUnmixed ==
  /\ pc = "assign"
  /\ ~mixed_keywords
  /\ \E i \in 1 .. Len(args) :
       /\ arg_fate[i].how = "positional"
       /\ MatchingSlots(args[i]) # {}

\* The arguments that were met with every positional slot filled and bound
\* to no keyword.
Unmatched == {i \in 1 .. Len(arg_fate) : arg_fate[i].how = "none"}

\* C10, a step that takes an argument once npositional positional slots
\* are filled: no positional slot is assigned; an argument that matches no
\* declared keyword or has no rest changes no slot, and is either dropped
\* (ignore_rest) or recorded as what makes the call fail.
C10_Step ==
  (TakesArg /\ npositional_supplied >= npositional) =>
    LET tok == args'[Len(args')]
    IN /\ \A i \in DOMAIN cp_values : i < npositional => cp_values'[i] = cp_values[i]
       /\ MatchingSlots(tok) = {} =>
            /\ cp_values' = cp_values
            /\ arg_fate'[Len(args')].how = "none"
            /\ IF ignore_rest
                 THEN /\ npositional_supplied' = npositional_supplied
                      /\ keyword_error_sa' = keyword_error_sa
                 ELSE \/ npositional_supplied' > npositional
                      \/ Len(keyword_error_sa') > Len(keyword_error_sa)

\* C10, the outcome: without ignore_rest a call with such an argument
\* returns -1 with an arity or a keyword error and invokes no parse
\* operation; with ignore_rest such an argument causes no arity and no
\* keyword error, and the call returns a count unless a parse operation
\* or the declaration reported an error.
C10_Outcome ==
  (SpecConsumed /\ Unmatched # {}) =>
    IF ignore_rest
      THEN /\ ArityErrors \cup KeywordErrors = {}
           /\ keyword_error_sa = << >>
           /\ npositional_supplied = npositional
           /\ (pc = "done" /\ ParseErrors \cup UnknownTypeErrors = {}) => retval >= 0
      ELSE /\ parse_log = << >>
           /\ pc # "assign" => /\ pc = "done"
                               /\ retval = 0 - 1
                               /\ ArityErrors \cup KeywordErrors # {}

\* C10: once npositional positional slots are filled, every remaining
\* argument is only a keyword candidate: one that matches no declared keyword
\* or has no rest makes the call fail without ignore_rest and is dropped
\* with no error and no effect on any slot with it, and it is never
\* assigned to a positional slot.
C10_PastPositional == [][C10_Step]_vars /\ []C10_Outcome

\* A call with ignore_rest dropped an argument and returned a count after
\* storing a value.
C10_Witness ==
  /\ pc = "done"
  /\ ignore_rest
  /\ ~keywords_only
  /\ Unmatched # {}
  /\ retval >= 1
  /\ store_log # << >>

\* A call without ignore_rest returned -1 because of an argument past the
\* positional slots that has no rest.
C10_WitnessFail ==
  /\ pc = "done"
  /\ ~ignore_rest
  /\ Unmatched # {}
  /\ ArityErrors # {}

\* The k-th smallest element of a set of numbers.
NthOf(S, k) == CHOOSE x \in S : Cardinality({y \in S : y < x}) = k - 1

\* The arguments met past the positional slots that have keyword form with
\* an identifier no slot declares.
UnknownTokens ==
  {i \in Unmatched : /\ IdentifiersOf(args[i]) # {}
                     /\ IdentifiersOf(args[i]) \cap DeclaredKeywords = {}}

\* The arguments that carry a declared keyword an earlier argument carried.
DuplicateTokens ==
  UNION {KeywordArgs(kw) \ {MinOf(KeywordArgs(kw))} :
           kw \in {k \in KeywordNames : SuppliedTwice(k)}}

\* The one keyword message names exactly the tokens of T, in their order,
\* and lists the declared keywords.
CombinedError(T) ==
  /\ Cardinality(KeywordErrors) = 1
  /\ \A e \in KeywordErrors :
       /\ Len(errh[e].detail[1]) = Cardinality(T)
       /\ \A k \in 1 .. Cardinality(T) :
            errh[e].detail[1][k].keyword \in IdentifiersOf(args[NthOf(T, k)])
       /\ errh[e].detail[2] = ValidKeywords

WrittenSlots ==
  {i \in {store_log[n] : n \in 1 .. Len(store_log)} :
     internal(argtype_hash, cp_values[i].argtype) = "cpiBool"}

\* C12 as stated: a call that succeeds returns the number of values
\* written into the caller's storage; IGNORE entries do not count.
C12_ReturnsStoredCount ==
  (pc = "done" /\ retval # 0 - 1) => retval = Cardinality(WrittenSlots)

TooManyErrors == ErrorsOfKind({"too many arguments to cp_va_parsev!"})

\* C13 as stated: a declaration is rejected as too long only when it does
\* not fit in the CP_VALUES_SIZE entries of the scratch array, and a
\* rejected call has returned -1 with no parse and no store operation.
C13_ScratchBound ==
  TooManyErrors # {} =>
    /\ pc = "done"
    /\ retval = 0 - 1
    /\ parse_log = << >>
    /\ store_log = << >>
    /\ nvalues >= CP_VALUES_SIZE

\* C14 as stated: a name is found by lookup iff its registrations that
\* returned 0 outnumber its unregistrations, and a descriptor that is
\* linked has a positive use_count.
C14_ReferenceCounting ==
  \A name \in RegistryNames :
    /\ find_argtype(argtype_hash, name) # NULL
         <=> Count(nregistered, name) > Count(nunregistered, name)
    /\ find_argtype(argtype_hash, name) # NULL => argtype_hash[name].use_count >= 1

\* C15 as stated: a binding call made while the scratch array does not
\* exist (before cp_va_static_initialize or after cp_va_static_cleanup)
\* has reported an error and returned -1 without a parse or a store
\* operation and without reaching a slot of the array; and once
\* initialized, every built-in name is found by lookup.
C15_MustExist ==
  /\ (pc # "idle" /\ cp_values_ptr # "valid") =>
       /\ pc = "done"
       /\ retval = 0 - 1
       /\ DeliveredErrors # {}
       /\ parse_log = << >>
       /\ store_log = << >>
       /\ DOMAIN cp_values = {}
  /\ cp_values_ptr = "valid" =>
       \A n \in DOMAIN BuiltinArgTypes : find_argtype(argtype_hash, n) # NULL

\* ------------------------------------------------------------------------
\* The lexical structure of a configuration text, as the properties read it
\* ------------------------------------------------------------------------

\* The kind of every character of s from position i on (positions of a
\* sequence count from 1), read from left to right.  modes is the stack of
\* the constructs that are open: "sq" and "dq" quotes, a \<...> block
\* "angle", a "line" or a "block" comment.  A character is a top-level
\* "comma", top-level "space", part of a top-level "comment", or "text";
\* everything inside quotes and \<...> blocks is text.  A construct that
\* is not closed reaches to the end.
RECURSIVE Kinds(_, _, _)
Kinds(s, i, modes) ==
  IF i > Len(s) THEN << >>
  ELSE
    LET c == s[i]
        more == i < Len(s)
        top == IF modes = << >> THEN "top" ELSE modes[Len(modes)]
        pop == SubSeq(modes, 1, Len(modes) - 1)
        inner == \E k \in 1 .. Len(modes) : modes[k] = "angle"
        ck == IF inner THEN "text" ELSE "comment"
    IN CASE top = "line" ->
              IF c = "\r" /\ more /\ s[i + 1] = "\n"
                THEN <<ck, ck>> \o Kinds(s, i + 2, pop)
              ELSE IF c = "\n" \/ c = "\r" THEN <<ck>> \o Kinds(s, i + 1, pop)
              ELSE <<ck>> \o Kinds(s, i + 1, modes)
         [] top = "block" ->
              IF c = "*" /\ more /\ s[i + 1] = "/"
                THEN <<ck, ck>> \o Kinds(s, i + 2, pop)
                ELSE <<ck>> \o Kinds(s, i + 1, modes)
         [] top = "sq" ->
              <<"text">> \o Kinds(s, i + 1, IF c = "'" THEN pop ELSE modes)
         [] top = "dq" ->
              IF c = "\\" /\ more /\ s[i + 1] = "<"
                THEN <<"text", "text">> \o Kinds(s, i + 2, Append(modes, "angle"))
              ELSE IF c = "\\" /\ more
                THEN <<"text", "text">> \o Kinds(s, i + 2, modes)
              ELSE <<"text">> \o Kinds(s, i + 1, IF c = "\"" THEN pop ELSE modes)
         [] top = "angle" ->
              IF c = ">" THEN <<"text">> \o Kinds(s, i + 1, pop)
              ELSE IF c = "/" /\ more /\ s[i + 1] = "/"
                THEN <<"text", "text">> \o Kinds(s, i + 2, Append(modes, "line"))
              ELSE IF c = "/" /\ more /\ s[i + 1] = "*"
                THEN <<"text", "text">> \o Kinds(s, i + 2, Append(modes, "block"))
              ELSE <<"text">> \o Kinds(s, i + 1, modes)
         [] OTHER ->
              IF c = "/" /\ more /\ s[i + 1] = "/"
                THEN <<"comment", "comment">> \o Kinds(s, i + 2, <<"line">>)
              ELSE IF c = "/" /\ more /\ s[i + 1] = "*"
                THEN <<"comment", "comment">> \o Kinds(s, i + 2, <<"block">>)
              ELSE IF c = "\\" /\ more /\ s[i + 1] = "<"
                THEN <<"text", "text">> \o Kinds(s, i + 2, <<"angle">>)
              ELSE IF c = "'" THEN <<"text">> \o Kinds(s, i + 1, <<"sq">>)
              ELSE IF c = "\"" THEN <<"text">> \o Kinds(s, i + 1, <<"dq">>)
              ELSE IF c = "," THEN <<"comma">> \o Kinds(s, i + 1, modes)
              ELSE IF isspace(c) THEN <<"space">> \o Kinds(s, i + 1, modes)
              ELSE <<"text">> \o Kinds(s, i + 1, modes)

\* The positions of the top-level commas of s.
TopLevelCommas(s) ==
  LET k == Kinds(s, 1, << >>) IN {i \in 1 .. Len(s) : k[i] = "comma"}

\* The positions of s that hold text.
TextPositions(s) ==
  LET k == Kinds(s, 1, << >>) IN {i \in 1 .. Len(s) : k[i] = "text"}

HasComment(s) ==
  LET k == Kinds(s, 1, << >>) IN \E i \in 1 .. Len(s) : k[i] = "comment"

\* The part of s between the (n-1)-th and the n-th top-level comma, as
\* the positions before its first and after its last character.
FieldBounds(s, n) ==
  LET commas == TopLevelCommas(s)
  IN [from |-> IF n = 1 THEN 0 ELSE NthOf(commas, n - 1),
      to |-> IF n > Cardinality(commas) THEN Len(s) + 1 ELSE NthOf(commas, n)]

\* That part with the whitespace and the comments around its text removed.
StrippedField(s, n) ==
  LET b == FieldBounds(s, n)
      text == {i \in TextPositions(s) : b.from < i /\ i < b.to}
  IN IF text = {} THEN << >> ELSE SubSeq(s, MinOf(text), MaxOf(text))

\* The result is the list of the stripped fields of the input, where a
\* field that holds a comment between two texts is only required to start
\* and end as the stripped field does.
FieldsAreStripped(conf, fields) ==
  \A n \in 1 .. Len(fields) :
    LET want == StrippedField(conf, n)
    IN IF HasComment(want)
         THEN /\ fields[n] # << >>
              /\ fields[n][1] = want[1]
              /\ fields[n][Len(fields[n])] = want[Len(want)]
         ELSE fields[n] = want

\* The texts of the examples.
Text_a_b_c == <<"a", ",", " ", "b", " ", ",", "c">>

Text_a_comma == <<"a", ",">>

\* C16 as stated: every configuration text gives one field per top-level
\* comma plus one, each stripped of the whitespace and comments around it;
\* only the empty text gives no field.
C16_OneFieldPerComma ==
  call_out # << >> =>
    /\ Len(call_out[1]) =
         (IF call_in = << >> THEN 0 ELSE Cardinality(TopLevelCommas(call_in)) + 1)
    /\ FieldsAreStripped(call_in, call_out[1])

\* C16: a configuration text gives one field per top-level comma plus one,
\* each stripped of the whitespace and comments around it, except that a
\* text with no top-level comma and no text in it (empty, or only
\* whitespace and comments) gives no field at all; "a, b , c" gives
\* a, b, c and "a," gives a and the empty field.
C16_Argvec ==
  /\ cp_argvec(Text_a_b_c) = << <<"a">>, <<"b">>, <<"c">> >>
  /\ cp_argvec(Text_a_comma) = << <<"a">>, << >> >>
  /\ cp_argvec(<< >>) = << >>
  /\ call_out # << >> =>
       /\ Len(call_out[1]) =
            (IF TopLevelCommas(call_in) = {} /\ TextPositions(call_in) = {}
               THEN 0 ELSE Cardinality(TopLevelCommas(call_in)) + 1)
       /\ FieldsAreStripped(call_in, call_out[1])

\* cp_argvec has returned two fields for a text with two commas, one of
\* them not at top level, whose last field is empty.
C16_Witness ==
  /\ call_out # << >>
  /\ Len(call_out[1]) = 2
  /\ Cardinality({i \in 1 .. Len(call_in) : call_in[i] = ","}) = 2
  /\ call_out[1][2] = << >>

\* s without the whitespace before its first and after its last character
\* that is no top-level whitespace.
Trimmed(s) ==
  LET k == Kinds(s, 1, << >>)
      solid == {i \in 1 .. Len(s) : k[i] # "space"}
  IN IF solid = {} THEN << >> ELSE SubSeq(s, MinOf(solid), MaxOf(solid))

\* C17 as stated: cp_uncomment returns a text that holds no comment
\* unchanged, character for character.
C17_UncommentIdentity ==
  (call_out # << >> /\ ~HasComment(call_in)) => call_out[1] = call_in

\* C17: cp_uncomment returns a text that holds no comment without the
\* whitespace at its start and at its end, and otherwise unchanged,
\* character for character; a text that neither starts nor ends with
\* whitespace is returned as it is.
C17_UncommentTrims ==
  (call_out # << >> /\ ~HasComment(call_in)) =>
    /\ call_out[1] = Trimmed(call_in)
    /\ (call_in # << >> /\ ~isspace(call_in[1]) /\ ~isspace(call_in[Len(call_in)]))
         => call_out[1] = call_in

\* cp_uncomment has returned a text that holds the characters of a comment
\* inside quotes, without the space in front of it.
C17_Witness ==
  /\ call_out # << >>
  /\ ~HasComment(call_in)
  /\ \E i \in 1 .. (Len(call_in) - 1) : call_in[i] = "/" /\ call_in[i + 1] = "*"
  /\ isspace(call_in[1])
  /\ Len(call_out[1]) = Len(call_in) - 1

\* A word as cp_is_word accepts it, with no quote and no backslash in it.
UnquotedWord(w) ==
  /\ cp_is_word(w)
  /\ \A i \in 1 .. Len(w) : w[i] \notin {"\"", "'", "\\"}

\* The two characters that open a comment stand at some position of w.
HasCommentOpener(w) ==
  \E i \in 0 .. (Len(w) - 1) : CommentAt(w, i, Len(w))

\* C18 as stated: cp_unquote returns every word that cp_is_word accepts and
\* that holds no quote and no backslash unchanged, and unquoting the result
\* again changes nothing.
C18_UnquoteIdentity ==
  (call_out # << >> /\ UnquotedWord(call_in)) =>
    /\ call_out[1] = call_in
    /\ cp_unquote(call_out[1]) = call_out[1]

\* C18: cp_unquote returns every word that cp_is_word accepts and that
\* holds no quote, no backslash and no // or /* unchanged, and unquoting
\* the result again changes nothing; of a word that holds // or /* it
\* returns the text without the comment.
C18_UnquoteWord ==
  (call_out # << >> /\ UnquotedWord(call_in)) =>
    /\ ~HasCommentOpener(call_in) =>
         /\ call_out[1] = call_in
         /\ cp_unquote(call_out[1]) = call_out[1]
    /\ call_out[1] = cp_uncomment(call_in)

\* cp_unquote has returned a word of the greatest length that holds a
\* slash, a star and an angle bracket and no comment.
C18_Witness ==
  /\ call_out # << >>
  /\ UnquotedWord(call_in)
  /\ ~HasCommentOpener(call_in)
  /\ Len(call_in) = MaxConfLen
  /\ {"/", "*", "<"} \subseteq {call_in[i] : i \in 1 .. Len(call_in)}
  /\ call_out[1] = call_in

\* How a text without a minus sign is read in a base: the base in force
\* and the digits, after the plus sign and the 0x prefix.
Reading(str, base) ==
  LET body == IF str # << >> /\ str[1] = "+" THEN Tail(str) ELSE str
  IN IF base \in {-1, 0, 16} /\ Len(body) >= 3 /\ body[1] = "0" /\ body[2] = "x"
       THEN [base |-> 16, digits |-> SubSeq(body, 3, Len(body))]
     ELSE IF base <= 0 /\ body # << >> /\ body[1] = "0"
       THEN [base |-> 8, digits |-> body]
     ELSE IF base <= 0 THEN [base |-> 10, digits |-> body]
     ELSE [base |-> base, digits |-> body]

\* A digit string in a base.
DigitString(r) ==
  /\ r.digits # << >>
  /\ \A i \in 1 .. Len(r.digits) :
       DigitOf(r.digits[i]) >= 0 /\ DigitOf(r.digits[i]) < r.base

\* The mathematical value of the first k digits of a digit string: big
\* says that it exceeds 2^32 - 1, and val is the value if it does not.
RECURSIVE MathValue(_, _)
MathValue(r, k) ==
  IF k = 0 THEN [big |-> FALSE, val |-> U32(0, 0)]
  ELSE LET m == MathValue(r, k - 1)
           d == DigitOf(r.digits[k])
       IN IF m.big \/ m.val.hi * r.base + (m.val.lo * r.base + d) \div Half >= Half
            THEN [big |-> TRUE, val |-> U32(0, 0)]
            ELSE [big |-> FALSE, val |-> MulAdd(m.val, r.base, d)]

ValueOfText(str, base) ==
  MathValue(Reading(str, base), Len(Reading(str, base).digits))

\* C19 as stated: for every digit string in the base in force, cp_unsigned
\* succeeds; if the value exceeds 2^32 - 1 it sets the overflow code and
\* returns 0xFFFFFFFF, and otherwise it returns the value and flags no
\* overflow.
C19_Saturates ==
  (call_out # << >> /\ DigitString(Reading(call_in.str, call_in.base))) =>
    LET m == ValueOfText(call_in.str, call_in.base)
        out == call_out[1]
    IN /\ out.ok
       /\ m.big => (out.cp_errno = CPE_OVERFLOW /\ out.return_value = U32(Half - 1, Half - 1))
       /\ ~m.big => (out.cp_errno = CPE_OK /\ out.return_value = m.val)

\* The text after the minus sign, if there is one.
Magnitude(str) == IF str # << >> /\ str[1] = "-" THEN Tail(str) ELSE str

\* C20 as stated: for a digit string with or without a minus sign,
\* cp_integer succeeds; a non-negative value above 2^31 - 1 gives
\* 0x7FFFFFFF with the overflow code, a negative one of a magnitude above
\* 2^31, a magnitude above 2^32 - 1 included, gives -2^31 with the
\* overflow code, and every other one gives its value.
C20_Saturates ==
  (call_out # << >> /\ DigitString(Reading(Magnitude(call_in.str), call_in.base))) =>
    LET m == ValueOfText(Magnitude(call_in.str), call_in.base)
        negative == call_in.str[1] = "-"
        top == U32(Half \div 2, 0)
        out == call_out[1]
    IN /\ out.ok
       /\ IF ~negative /\ (m.big \/ ~Less(m.val, top))
            THEN /\ out.return_value = U32(Half \div 2 - 1, Half - 1)
                 /\ out.cp_errno = CPE_OVERFLOW
          ELSE IF negative /\ (m.big \/ Less(top, m.val))
            THEN /\ out.return_value = top
                 /\ out.cp_errno = CPE_OVERFLOW
          ELSE IF negative /\ m.val = top
            THEN out.return_value = top
          ELSE SignedValue(out.return_value) =
                 (IF negative THEN 0 - SignedValue(m.val) ELSE SignedValue(m.val))

\* C21: for the unsigned numbers n of 32 bits, the bases 8, 10 and 16
\* and either case of the digits, cp_unsigned applied in that base to the
\* text cp_unparse_ulonglong gives for n succeeds, flags no overflow and
\* returns n.
C21_IntegerRoundTrip ==
  Len(call_out) = 2 =>
    /\ call_out[2].ok
    /\ call_out[2].cp_errno = CPE_OK
    /\ call_out[2].return_value = call_in.n

\* The text of 0xFFFFFFFF in upper-case digits has been read back.
C21_Witness ==
  /\ Len(call_out) = 2
  /\ call_in.n = U32(Half - 1, Half - 1)
  /\ call_out[1] = <<"F", "F", "F", "F", "F", "F", "F", "F">>
  /\ call_out[2].return_value = call_in.n

\* C22 as stated: for a number x with frac_bits fractional bits,
\* cp_unsigned_real2 applied to the text cp_unparse_real2 gives for x
\* succeeds and returns x.
C22_Real2RoundTrip ==
  Len(call_out) = 2 =>
    /\ call_out[2].ok
    /\ call_out[2].return_value = call_in.x

\* The parts of a prefix text: before and behind its last slash.
IpPart(str) ==
  IF find_right(str, "/") >= 0 THEN substring(str, 0, find_right(str, "/")) ELSE str

MaskPart(str) ==
  IF find_right(str, "/") >= 0
    THEN substring(str, find_right(str, "/") + 1, Len(str)) ELSE << >>

\* Bit number k, from the left and from 0, of the bytes of a mask.
MaskBit(mask, k) == (mask[(k \div 8) + 1] \div (2 ^ (7 - (k % 8)))) % 2

\* The bits of a mask are n ones and then zeros only.
RunOfOnes(mask, n) ==
  \A k \in 0 .. (8 * Len(mask) - 1) : MaskBit(mask, k) = 1 <=> k < n

\* cp_ip6_prefix was given a literal address, a slash and a mask that is a
\* literal address.
ExplicitMask ==
  /\ call_fn = "cp_ip6_prefix"
  /\ call_out # << >>
  /\ find_right(call_in.str, "/") >= 0
  /\ cp_ip6_address(IpPart(call_in.str), {}, << >>).ok
  /\ cp_ip6_address(MaskPart(call_in.str), {}, << >>).ok

\* C23 as stated: an IPv6 prefix whose mask is given as an address is
\* accepted only if the mask is a run of one-bits from the left followed
\* by zero bits only, with the length of the run as the bit count; every
\* other mask is rejected without a lookup.
C23_MaskIsRun ==
  ExplicitMask =>
    LET mask == cp_ip6_address(MaskPart(call_in.str), {}, << >>).value
        out == call_out[1]
    IN /\ out.ok => RunOfOnes(mask, out.bits)
       /\ (~\E n \in 0 .. 128 : RunOfOnes(mask, n)) => (~out.ok /\ out.queries = << >>)

\* n copies of the sequence s, one after the other.
RECURSIVE Copies(_, _)
Copies(s, n) == IF n <= 0 THEN << >> ELSE s \o Copies(s, n - 1)

\* cp_ip6_address was given the text of groups 12ab, with a :: that does
\* not stand behind a dotted quad, or with none.
GroupsText ==
  /\ call_fn = "cp_ip6_address"
  /\ call_out # << >>
  /\ ~call_in.big
  /\ ~call_in.twice
  /\ call_in.quad => call_in.coloncolon <= call_in.k

\* The count of the 16-bit groups of the text, and that it has a ::.
GroupCount == call_in.k + (IF call_in.quad THEN 2 ELSE 0)

HasColonColon ==
  call_in.coloncolon \in 0 .. (call_in.k + (IF call_in.quad THEN 1 ELSE 0))

\* C24: a text of k < 8 groups and one :: gives the groups before the ::,
\* then 8 - k zero groups, then the groups behind it, a dotted quad at the
\* end filling the last two groups, "::1" giving 15 zero bytes and 1; a
\* text of 8 groups and a ::, of fewer than 8 groups and no ::, with a
\* second ::, or with a group above 0xFFFF is no literal.
C24_ZeroRun ==
  /\ cp_ip6_address(<<":", ":", "1">>, {}, << >>) =
       Literal([i \in 1 .. 16 |-> IF i = 16 THEN 1 ELSE 0], << >>, -1, << >>)
  /\ (GroupsText /\ HasColonColon /\ GroupCount < 8) =>
       call_out[1] =
         Literal(Copies(<<18, 171>>, call_in.coloncolon)
                   \o Copies(<<0, 0>>, 8 - GroupCount)
                   \o Copies(<<18, 171>>, call_in.k - call_in.coloncolon)
                   \o (IF call_in.quad THEN <<1, 2, 3, 4>> ELSE << >>),
                 << >>, -1, << >>)
  /\ (GroupsText /\ HasColonColon /\ GroupCount = 8) => ~call_out[1].literal
  /\ (GroupsText /\ ~HasColonColon /\ GroupCount < 8) => ~call_out[1].literal
  /\ (call_fn = "cp_ip6_address" /\ call_out # << >> /\ HasColonColon /\ call_in.twice)
       => ~call_out[1].literal
  /\ (call_fn = "cp_ip6_address" /\ call_out # << >> /\ call_in.big /\ call_in.k > 0)
       => ~call_out[1].literal

\* cp_ip6_address has put three zero groups between two groups and the
\* three groups of a text that ends in a dotted quad.
C24_Witness ==
  /\ GroupsText
  /\ call_in.quad
  /\ call_in.k = 3
  /\ call_in.coloncolon = 2
  /\ call_out[1].literal
  /\ call_out[1].value = <<18, 171, 18, 171, 0, 0, 0, 0, 0, 0, 18, 171, 1, 2, 3, 4>>

\* What the parser applied gives for its text when the lookup finds the
\* names of the kinds in names.
ParsedWith(names) ==
  CASE call_fn = "cp_ip_address" -> cp_ip_address(call_in.str, names, << >>)
    [] call_fn = "cp_ip_prefix" ->
         cp_ip_prefix(call_in.str, call_in.allow_bare_address, names)
    [] call_fn = "cp_ip6_address" -> cp_ip6_address(call_in.str, names, << >>)
    [] call_fn = "cp_ip6_prefix" ->
         cp_ip6_prefix(call_in.str, call_in.allow_bare_address, names)
    [] call_fn = "cp_ethernet_address" -> cp_ethernet_address(call_in.str, names)

\* C25 as stated: for a text that is a literal, that is, one the parser
\* accepts when the lookup finds no name at all, the parser returns the
\* literal's value and makes no lookup call, whatever names the lookup
\* would find.
C25_LookupLast ==
  (call_out # << >> /\ ParsedWith({}).ok) =>
    /\ call_out[1].queries = << >>
    /\ call_out[1].value = ParsedWith({}).value
    /\ call_out[1].mask = ParsedWith({}).mask
    /\ call_out[1].bits = ParsedWith({}).bits

\* A prefix parser was applied, and what the address parser makes of the
\* text before the slash when the lookup finds nothing.
PrefixParsed == call_fn \in {"cp_ip_prefix", "cp_ip6_prefix"} /\ call_out # << >>

BareAddress ==
  IF call_fn = "cp_ip_prefix" THEN cp_ip_address(IpPart(call_in.str), {}, << >>)
  ELSE cp_ip6_address(IpPart(call_in.str), {}, << >>)

NoSlash == find_right(call_in.str, "/") < 0

\* C26: a literal address without a slash is accepted by the prefix parsers
\* when the caller allows a bare address, with the mask 255.255.255.255
\* for IPv4 and the bit count 64 for IPv6, and without a lookup; when the
\* caller does not allow it, no text without a slash and no literal
\* address followed by a slash and nothing is taken as a literal: the
\* result is what the lookup gives.
C26_BareAddress ==
  PrefixParsed =>
    /\ (NoSlash /\ BareAddress.ok /\ call_in.allow_bare_address) =>
         call_out[1] =
           (IF call_fn = "cp_ip_prefix"
              THEN Literal(BareAddress.value, <<255, 255, 255, 255>>, -1, << >>)
              ELSE Literal(BareAddress.value, << >>, 64, << >>))
    /\ (NoSlash /\ ~call_in.allow_bare_address) =>
         /\ ~call_out[1].literal
         /\ call_out[1].queries # << >>
    /\ (~NoSlash /\ MaskPart(call_in.str) = << >> /\ BareAddress.ok
          /\ ~call_in.allow_bare_address) =>
         /\ ~call_out[1].literal
         /\ call_out[1].queries # << >>

\* cp_ip6_prefix has taken the bare address ::1 with the bit count 64 while
\* the lookup knew names of every kind.
C26_Witness ==
  /\ PrefixParsed
  /\ call_fn = "cp_ip6_prefix"
  /\ call_in.str = <<":", ":", "1">>
  /\ call_in.allow_bare_address
  /\ call_in.names = QueryKinds
  /\ call_out[1].bits = 64
  /\ call_out[1].queries = << >>

\* cp_ip_prefix, not allowed a bare address, has turned to the lookup for a
\* literal address without a slash, and the lookup has found nothing.
C26_WitnessRejected ==
  /\ PrefixParsed
  /\ call_fn = "cp_ip_prefix"
  /\ NoSlash
  /\ BareAddress.ok
  /\ ~call_in.allow_bare_address
  /\ ~call_out[1].ok

\* C27 as stated: a registration that returns the conflict outcome leaves
\* the registry as it was, the use_count of the descriptor included.
C27_ConflictLeavesRegistry ==
  [][(cp_register_argtype /\ call_out' = <<-1>>) => argtype_hash' = argtype_hash]_vars

\* C28 as stated: the outcome of a binding call is determined by its
\* specification and its arguments alone; nothing an earlier call left in the
\* shared scratch array changes it.  In particular a slot of the keyword
\* region is stored (and counted in the return value) only when an argument
\* of this very call was assigned to it.
C28_OutcomeFromArguments ==
  pc = "done" =>
    \A n \in 1 .. Len(store_log) :
      store_log[n] \in KeywordRegion => store_log[n] \in SuppliedSlots

\* C29: unquoting the quoted form of a byte string gives the byte string
\* back, with either setting of allow_newlines, and the quoted form made
\* with allow_newlines false holds only the printable bytes 32 .. 126.
C29_QuoteRoundTrip ==
  call_fn = "cp_quote" =>
    /\ (Len(call_out) >= 1 /\ ~call_in.allow_newlines) =>
         \A i \in 1 .. Len(call_out[1]) :
           Byte(call_out[1][i]) >= 32 /\ Byte(call_out[1][i]) <= 126
    /\ Len(call_out) = 2 => call_out[2] = call_in.str

\* C29: a string with a backslash, a byte above 126 and a newline has been
\* quoted and unquoted.
C29_Witness ==
  /\ call_fn = "cp_quote"
  /\ Len(call_out) = 2
  /\ call_out[2] = call_in.str
  /\ \E i, j, k \in 1 .. Len(call_in.str) :
       /\ call_in.str[i] = "\\"
       /\ Byte(call_in.str[j]) >= 127
       /\ call_in.str[k] = "\n"

\* floor(w / 10) and w mod 10 of a 64-bit number, by long division from the
\* highest limb.
DivTen(w) ==
  LET c4 == w[4]
      c3 == (c4 % 10) * Half + w[3]
      c2 == (c3 % 10) * Half + w[2]
      c1 == (c2 % 10) * Half + w[1]
  IN [quot |-> <<c1 \div 10, c2 \div 10, c3 \div 10, c4 \div 10>>, rem |-> c1 % 10]

\* a <= b for 64-bit numbers.
AtMost(a, b) ==
  \/ a = b
  \/ \E i \in 1 .. 4 : a[i] < b[i] /\ \A j \in (i + 1) .. 4 : a[j] = b[j]

\* The standard decimal representation of a 64-bit number.
RECURSIVE DecimalOfPositive(_)
DecimalOfPositive(w) ==
  IF w = Zero64 THEN << >>
  ELSE DecimalOfPositive(DivTen(w).quot) \o <<DigitChars(FALSE)[DivTen(w).rem + 1]>>

StandardDecimal(w) == IF w = Zero64 THEN <<"0">> ELSE DecimalOfPositive(w)

\* C30, the safety part: k never exceeds floor(q/10); at the break
\* q = 10 * k + m with 0 <= m < 10; the text returned is the standard decimal
\* representation of the number, "0" for zero.
DecimalExact ==
  call_fn = "cp_unparse_ulonglong_steps" =>
    LET l == call_out[1]
    IN /\ l.pc = "while" => AtMost(l.k, DivTen(l.q).quot)
       /\ l.pc = "digit" => l.k = DivTen(l.q).quot /\ l.m = <<DivTen(l.q).rem, 0, 0, 0>>
       /\ l.pc = "done" => l.buf = StandardDecimal(call_in)

\* C30: base-10 unparsing is exact at every step (k never exceeds
\* floor(q/10), the correction loop ends with q = 10 * k + m and m < 10, the
\* output is the standard decimal representation) and it terminates: every
\* run reaches the return.
C30_DecimalExactAndTerminates ==
  []DecimalExact /\ <>(call_fn = "cp_unparse_ulonglong_steps" /\ call_out[1].pc = "done")

\* C30: the largest 64-bit number has been unparsed, to twenty digits.
C30_Witness ==
  /\ call_fn = "cp_unparse_ulonglong_steps"
  /\ call_out[1].pc = "done"
  /\ call_in = <<65535, 65535, 65535, 65535>>
  /\ Len(call_out[1].buf) = 20

\* C30: a turn of the correction loop that does not break is about to run on
\* a number above 2^48.
C30_WitnessCorrection ==
  /\ call_fn = "cp_unparse_ulonglong_steps"
  /\ call_out[1].pc = "while"
  /\ call_out[1].q[4] > 0
  /\ ~Below(Remainder(call_out[1].q, call_out[1].k), 10)

====
